---------------------------- MODULE Spec2Model ----------------------------
(***************************************************************************)
(* State machine of HonoOAuthSessions (hono-oauth-sessions): the session   *)
(* manager that ties the sealed iron-session cookie of a browser, the      *)
(* stored OAuth session record of a DID (key session:{did}) and the OAuth  *)
(* client's refresh into the answer "is this user signed in".              *)
(*                                                                         *)
(* Every public method is an async function.  A request is a slot of req   *)
(* whose pc names the awaited call that touches shared state (the store or *)
(* the OAuth client); one action is the effect of that call followed by    *)
(* the handler's code up to the next such call.  iron-session's save() and *)
(* destroy() only append a Set-Cookie header to the response of the        *)
(* request: the header is kept in setCookie and reaches the browser's      *)
(* cookie jar when the handler finishes.  A finished handler stays in its  *)
(* slot with pc "done" and its answer in result until Return empties the   *)
(* slot; no other step is taken in between.                                *)
(*                                                                         *)
(* Spec lets the calls of two requests interleave at their awaits; SeqSpec *)
(* is the same machine with one call in flight at a time.  FlowSpec is the *)
(* OAuth flow alone (startOAuth and handleCallback), AuthSpec startOAuth   *)
(* alone, and ConfigSpec the constructor alone on every configuration.     *)
(* ApiSpec has the methods beside validateSession (refreshMobileToken,     *)
(* getStoredOAuthData, getOAuthSession and the helper methods of 1.1.0),   *)
(* RetrySpec sign-in and validateSession with the history of a failed      *)
(* store read.  StoredSpec is validateSession with overlapping calls on a  *)
(* record stored before the behaviour starts, IsolationSpec the methods    *)
(* that write the store beside the record of a DID no call is made for.    *)
(***************************************************************************)
EXTENDS Integers, Sequences, FiniteSets, TLC

\* ---------------------------------------------------------------- bounds
MaxTicks == 1        \* clock steps of 1000 ms a behaviour may take
MaxTok   == 2        \* token pairs the OAuth client issues in a behaviour

\* ------------------------------------------------------------- constants
None == "none"                       \* an absent string (undefined / null)
NoTime == 0 - 1                      \* an absent timestamp or duration
NoToken == 0                         \* an absent access or refresh token
DIDs == {"did:a"}
Browsers == {"b1", "b2"}
Reqs == {1, 2}                       \* requests that can be in flight together
StartMs == 1000 * 1000               \* Date.now() when the manager is constructed
RefreshWindowMs == 5 * 60 * 1000     \* "within 5 minutes of expiry"
ExpiryOffsets == {299000, 301000}    \* ms until expiry of freshly issued tokens
cookieSecret == "test-secret-key-must-be-32charss"
OtherSecret == "another-secret-key-of-32-charss!"

HandleOf(d) == IF d = "did:a" THEN "a.test" ELSE "b.test"

\* `session:${did}`, the key of the record of a DID
sessionKey(did) == "session:" \o did

\* the key of the record of a DID in the first versions of the manager
sessionKeyBefore(did) == "oauth_session:" \o did

\* a DID no call of the behaviour is made for
Others == {"did:b"}

\* the keys of the store
Keys ==
    {sessionKey(d) : d \in DIDs \cup Others} \cup {sessionKeyBefore(d) : d \in DIDs}

VARIABLES
    config,     \* the HonoOAuthConfig handed to the constructor
    manager,    \* what the constructor made of it: the manager, or the error thrown
    now,        \* Date.now()
    store,      \* OAuthStorage: key -> the record under the key, or NoData
    jar,        \* browser -> iron session carried by its cookie
    minted,     \* mobile tokens sealed by this manager so far
    hasRefresh, \* whether config.oauthClient has a refresh method
    hasRestore, \* whether config.oauthClient has a restore method
    overlap,    \* whether a method may be called while another call is in flight
    keepFailed, \* whether prev also keeps a validateSession that met a failing store
    tok,        \* token pairs issued by the OAuth client so far
    req,        \* request slot -> handler state of the request in flight
    prev,       \* the request that returned last
    loggedOut   \* per DID, whether a logout completed since its last sign-in

vars ==
    <<config, manager, now, store, jar, minted, hasRefresh, hasRestore, overlap,
      keepFailed, tok, req, prev, loggedOut>>

\* what no method changes
setup == <<config, manager, hasRefresh, hasRestore, overlap, keepFailed>>

\* ------------------------------------------------------------ JS helpers
\* truthiness of a string, of a number of ms, of a token
Truthy(v) == v # None /\ v # ""

TruthyMs(v) == v # NoTime /\ v # 0

TruthyToken(v) == v # NoToken

Max(a, b) == IF a >= b THEN a ELSE b

\* ----------------------------------------------------------- constructor
\* an optional member that is given with the value undefined (None: not given)
Undefined == "(undefined)"

\* the configurations the constructor is called with: a required member is
\* None when it is missing; cookieSecret has 0, 5, 31, 32 or 33 characters
Configs ==
    [oauthClient : {None, "oauthClient"},
     storage : {None, "storage"},
     cookieSecret : {None, "", "short", "test-secret-key-must-be-31chars",
                     cookieSecret, "test-secret-key-must-be-33charsss"},
     baseUrl : {None, "", "https://test.com"},
     cookieName : {None, Undefined, "custom_session"},
     sessionTtl : {NoTime, 3600},
     mobileScheme : {None, "myapp://auth-callback"}]

\* the configuration with the required members only
RequiredOnly ==
    [oauthClient |-> "oauthClient", storage |-> "storage", cookieSecret |-> cookieSecret,
     baseUrl |-> "https://test.com", cookieName |-> None, sessionTtl |-> NoTime,
     mobileScheme |-> None]

NotConstructed == [kind |-> None, msg |-> None, config |-> RequiredOnly]

\* throw new ConfigurationError(message)
ConfigurationError(message) ==
    [NotConstructed EXCEPT !.kind = "ConfigurationError", !.msg = message]

\* the checks in another order
missingStorageFirst(c) ==
    IF ~Truthy(c.storage) THEN "storage is required"
    ELSE IF ~Truthy(c.oauthClient) THEN "oauthClient is required"
    ELSE IF ~Truthy(c.cookieSecret) THEN "cookieSecret is required"
    ELSE IF ~Truthy(c.baseUrl) THEN "baseUrl is required"
    ELSE None

\* lines 33-44: the message of the first check that fails, None if none does
missing(c) ==
    IF ~Truthy(c.oauthClient) THEN "oauthClient is required"
    ELSE IF ~Truthy(c.storage) THEN "storage is required"
    ELSE IF ~Truthy(c.cookieSecret) THEN "cookieSecret is required"
    ELSE IF ~Truthy(c.baseUrl) THEN "baseUrl is required"
    ELSE None

\* the defaults spread over the configuration
defaultsOver(c) ==
    [c EXCEPT !.cookieName = "sid", !.sessionTtl = 60 * 60 * 24 * 7,
              !.mobileScheme = "app://auth-callback"]

\* lines 47-52: {cookieName, sessionTtl, mobileScheme, ...config}: a member the
\* configuration has, be it with the value undefined, replaces the default
withDefaults(c) ==
    [c EXCEPT !.cookieName = IF c.cookieName = None THEN "sid" ELSE c.cookieName,
              !.sessionTtl = IF c.sessionTtl = NoTime THEN 60 * 60 * 24 * 7
                             ELSE c.sessionTtl,
              !.mobileScheme = IF c.mobileScheme = None THEN "app://auth-callback"
                               ELSE c.mobileScheme]

\* new HonoOAuthSessions(config), lines 31-55
constructor(c) ==
    IF missing(c) # None THEN ConfigurationError(missing(c))
    ELSE [NotConstructed EXCEPT !.kind = "manager", !.config = withDefaults(c)]

Construct ==
    /\ manager = NotConstructed
    /\ manager' = constructor(config)
    /\ UNCHANGED <<config, now, store, jar, minted, hasRefresh, hasRestore, overlap,
                   keepFailed, tok, req, prev, loggedOut>>

\* ------------------------------------------------------------ iron-session
\* iron-session sealData / unsealData: unsealing with another password, or
\* unsealing something that is no seal, yields the empty object
sealData(data, password) == [data |-> data, password |-> password]

\* an unsealing that does not look at the password
unsealDataWithAnyPassword(token, password) == token.data

unsealData(token, password) ==
    IF token.password = password THEN token.data ELSE [did |-> None]

Garbage == [data |-> [did |-> None], password |-> "(no seal)"]

\* the empty iron session {} (no cookie, or a cookie that does not unseal)
NoSession == [did |-> None, createdAt |-> NoTime, lastAccessed |-> NoTime]

\* storage.get answering null
NoData ==
    [did |-> None, accessToken |-> NoToken, refreshToken |-> NoToken, handle |-> None,
     pdsUrl |-> None, expiresAt |-> NoTime, createdAt |-> NoTime, updatedAt |-> NoTime]

NoOAuthSession ==
    [did |-> None, accessToken |-> NoToken, refreshToken |-> NoToken, handle |-> None,
     timeUntilExpiry |-> NoTime]

NoLocation ==
    [to |-> None, session_token |-> Garbage, did |-> None, handle |-> None,
     access_token |-> NoToken, refresh_token |-> NoToken]

NoResult ==
    [kind |-> None, status |-> 0, did |-> None, handle |-> None, msg |-> <<>>,
     location |-> NoLocation, url |-> None, sid |-> Garbage, data |-> NoData,
     session |-> NoOAuthSession, header |-> None]

NoHeader == [scheme |-> None, token |-> Garbage]

NoParams == [code |-> None, state |-> None]

\* a Request without a cookie header
NoCookieHeader == [hasCookie |-> FALSE, cookies |-> <<>>]

\* no error thrown by the adapter
NoError == [isError |-> FALSE, message |-> None, name |-> None]

\* startOAuth called without options
NoOptions == [mobile |-> FALSE, codeChallenge |-> None, redirectPath |-> None]

IdleReq ==
    [op |-> None, pc |-> "idle", b |-> None, params |-> NoParams, authHeader |-> NoHeader,
     session |-> NoSession, setCookie |-> "no", did |-> None, oauthData |-> NoData,
     at |-> NoTime, oauthSession |-> NoOAuthSession, refreshed |-> NoOAuthSession,
     updated |-> NoData, caught |-> None,
     handle |-> None, options |-> NoOptions, authorize |-> <<>>, thrown |-> NoError,
     request |-> NoCookieHeader, result |-> NoResult, trace |-> <<>>]

Free(r) == req[r].pc = "idle"

\* The state in which a handler has just answered (pc "done") is kept for one
\* step, in which nothing else happens: Return hands the answer over.
Quiet == \A q \in Reqs : req[q].pc # "done"

At(r, pc) == Quiet /\ req[r].pc = pc

\* a new request takes the first free slot
Slot(r) == Free(r) /\ \A q \in Reqs : q < r => ~Free(q)

Alone(r) == \A q \in Reqs \ {r} : Free(q)

\* a request arrives
Arrive(r) ==
    Quiet /\ Slot(r) /\ (overlap \/ Alone(r))

Log(rq, call) == Append(rq.trace, call)

Called(rq, call) == \E i \in 1..Len(rq.trace) : rq.trace[i] = call

\* a destroy() that leaves the cookie with the browser
DestroyedInMemory(rq) == [rq EXCEPT !.trace = Log(rq, "session.destroy")]

\* session.destroy() (lines 191 and 408): the session is emptied and the
\* response tells the browser to drop the cookie
Destroyed(rq) ==
    [rq EXCEPT !.setCookie = "clear", !.session = NoSession,
               !.trace = Log(rq, "session.destroy")]

NewReq(op, b) == [IdleReq EXCEPT !.op = op, !.pc = "run", !.b = b]

\* ------------------------------------------------- the end of a request
\* a browser that keeps its cookie when the response clears it
DeliverSavedOnly(rq) ==
    IF rq.setCookie = "save" THEN [jar EXCEPT ![rq.b] = rq.session] ELSE jar

\* The browser applies the Set-Cookie headers of the response: the session that
\* save() sealed, or the empty cookie of destroy().
Deliver(rq) ==
    IF rq.setCookie = "no" THEN jar
    ELSE [jar EXCEPT ![rq.b] = IF rq.setCookie = "clear" THEN NoSession ELSE rq.session]

\* History of sign-out per DID: TRUE from a logout of the DID that completed
\* until a handleCallback for the DID succeeds (answers with its redirect).
SignedAfter(rq, res) ==
    IF rq.op = "logout" /\ res.kind = "ok" /\ rq.did # None
    THEN [loggedOut EXCEPT ![rq.did] = TRUE]
    ELSE IF rq.op = "handleCallback" /\ res.kind = "redirect"
    THEN [loggedOut EXCEPT ![rq.did] = FALSE]
    ELSE loggedOut

NoneBefore == [op |-> None, b |-> None, did |-> None, kind |-> None]

\* what is kept of the request that returned last: a logout that succeeded, a
\* validateSession that destroyed the cookie or, with keepFailed, a
\* validateSession whose storage.get, refresh or storage.set threw
Before(rq) ==
    IF \/ rq.op = "logout" /\ rq.result.kind = "ok"
       \/ rq.op = "validateSession" /\ rq.setCookie = "clear"
       \/ rq.op = "validateSession" /\ keepFailed
              /\ (rq.thrown # NoError \/ rq.caught # None)
    THEN [op |-> rq.op, b |-> rq.b, did |-> rq.did, kind |-> rq.result.kind]
    ELSE NoneBefore

\* The two slots are interchangeable: the requests in flight are kept in the
\* order of Rank, an idle slot last.
PcRank(pc) ==
    CASE pc = "done" -> 0 [] pc = "hc_callback" -> 1 [] pc = "vs_get" -> 2
      [] pc = "vs_refresh" -> 3 [] pc = "vm_get" -> 4 [] pc = "lo_delete" -> 5
      [] pc \in {"so_authorize", "rm_get", "rm_restore", "gd_get", "go_restore",
                 "gr_restore"} -> 6
      [] OTHER -> 7

Rank(rq) == 3 * PcRank(rq.pc) + (IF rq.b = "b1" THEN 0 ELSE IF rq.b = "b2" THEN 1 ELSE 2)

Placed(f) == IF Rank(f[1]) <= Rank(f[2]) THEN f ELSE [q \in Reqs |-> f[3 - q]]

\* prev is kept while requests are served one at a time
Kept(r) == IF Alone(r) THEN prev ELSE NoneBefore

Finish(r, rq, res) ==
    /\ req' = Placed([req EXCEPT ![r] = [rq EXCEPT !.pc = "done", !.result = res]])
    /\ jar' = Deliver(rq)
    /\ prev' = Kept(r)
    /\ loggedOut' = SignedAfter(rq, res)

\* A request that answers before its first call to the store or to the OAuth
\* client takes a single step.  Taken while another request is in flight, that
\* step commutes with the steps the other request has taken (they change
\* nothing it reads), so it is taken when no other request is in flight.
AtOnce(r, rq, res) == Alone(r) /\ Finish(r, rq, res)

Continue(r, rq) ==
    /\ req' = Placed([req EXCEPT ![r] = rq])
    /\ prev' = Kept(r)
    /\ UNCHANGED <<jar, loggedOut>>

\* ----------------------------------------------------------- startOAuth
\* the handles startOAuth is called with, and the answer of isValidHandle of
\* @atproto/syntax (line 3) for each
Handles == {"a.test", "invalid-handle", ""}

isValidHandle(handle) == handle = "a.test"

\* the options startOAuth is called with: none, or any of its members
Options ==
    [mobile : BOOLEAN, codeChallenge : {None, "challenge123"},
     redirectPath : {None, "/bookmarks", "//evil.test", "https://evil.test"}]

\* Date.now() over a behaviour
Times == {StartMs + 1000 * k : k \in 0..MaxTicks}

\* what JSON.parse makes of the text null
NullState ==
    [handle |-> None, timestamp |-> NoTime, mobile |-> FALSE, codeChallenge |-> None,
     isNull |-> TRUE]

\* a state built for every flow, mobile or not
StateObjectAlwaysMobile(handle, timestamp, options) ==
    [NullState EXCEPT !.handle = handle, !.timestamp = timestamp, !.isNull = FALSE,
                      !.mobile = TRUE, !.codeChallenge = options.codeChallenge]

\* lines 80-88: the state object; a member that is not set (mobile FALSE,
\* codeChallenge None) is undefined
StateObject(handle, timestamp, options) ==
    [NullState EXCEPT !.handle = handle, !.timestamp = timestamp, !.isNull = FALSE,
                      !.mobile = options.mobile,
                      !.codeChallenge = IF options.mobile THEN options.codeChallenge
                                        ELSE None]

\* JSON.stringify(state) (line 91): the members in the order they were set,
\* without those that are undefined
JSONstringify(state) ==
    "{\"handle\":\"" \o state.handle \o "\",\"timestamp\":" \o ToString(state.timestamp)
        \o (IF state.mobile THEN ",\"mobile\":true" ELSE "")
        \o (IF state.codeChallenge # None
            THEN ",\"codeChallenge\":\"" \o state.codeChallenge \o "\"" ELSE "")
        \o "}"

\* the state objects startOAuth can build
StateObjects ==
    {StateObject(handle, timestamp, options) :
        handle \in {h \in Handles : isValidHandle(h)}, timestamp \in Times,
        options \in Options}

\* throw new OAuthFlowError(`${prefix}${message}`)
OAuthFlowError(prefix, message) ==
    [NoResult EXCEPT !.kind = "OAuthFlowError", !.msg = <<prefix, message>>]

\* a startOAuth that refuses a redirectPath it does not accept
StartOAuthStrict(r, handle, options) ==
    /\ Arrive(r)
    /\ LET rq == [NewReq("startOAuth", None) EXCEPT
                     !.handle = handle, !.options = options, !.at = now] IN
        IF ~isValidHandle(handle)
        THEN AtOnce(r, rq, OAuthFlowError("", "Invalid handle"))
        ELSE IF options.redirectPath \notin {None, "/bookmarks"}
        THEN AtOnce(r, rq, OAuthFlowError("", "Invalid redirect path"))
        ELSE Continue(r, [rq EXCEPT
                 !.pc = "so_authorize",
                 !.authorize = <<[handle |-> handle,
                                  state |-> JSONstringify(StateObject(handle, now, options))]>>,
                 !.trace = Log(rq, "oauthClient.authorize")])
    /\ UNCHANGED <<now, store, minted, setup, tok>>

\* a startOAuth that hands the handle to the adapter before looking at it
StartOAuthUnchecked(r, handle, options) ==
    /\ Arrive(r)
    /\ LET rq == [NewReq("startOAuth", None) EXCEPT
                     !.handle = handle, !.options = options, !.at = now] IN
        Continue(r, [rq EXCEPT
            !.pc = "so_authorize",
            !.authorize = <<[handle |-> handle,
                             state |-> JSONstringify(StateObject(handle, now, options))]>>,
            !.trace = Log(rq, "oauthClient.authorize")])
    /\ UNCHANGED <<now, store, minted, setup, tok>>

\* lines 71-92: the handle is checked, the state built and serialised, and
\* oauthClient.authorize(handle, {state}) called; redirectPath is a member of
\* the options that the method does not read
StartOAuth(r, handle, options) ==
    /\ Arrive(r)
    /\ LET rq == [NewReq("startOAuth", None) EXCEPT
                     !.handle = handle, !.options = options, !.at = now] IN
        IF ~isValidHandle(handle)
        THEN AtOnce(r, rq, OAuthFlowError("", "Invalid handle"))
        ELSE Continue(r, [rq EXCEPT
                 !.pc = "so_authorize",
                 !.authorize = <<[handle |-> handle,
                                  state |-> JSONstringify(StateObject(handle, now, options))]>>,
                 !.trace = Log(rq, "oauthClient.authorize")])
    /\ UNCHANGED <<now, store, minted, setup, tok>>

\* the URL the adapter answers with, and its toString()
AuthUrl == [href |-> "https://oauth.example.com/authorize?code=123"]

toString(url) == url.href

\* lines 90-94: authorize returns
StartOAuthAuthorize(r) ==
    /\ At(r, "so_authorize")
    /\ Finish(r, req[r], [NoResult EXCEPT !.kind = "url", !.url = toString(AuthUrl)])
    /\ UNCHANGED <<now, store, minted, setup, tok>>

\* what the adapter's authorize throws: an Error, or a value that is no Error
AuthorizeErrors ==
    {[isError |-> TRUE, message |-> "OAuth authorization failed", name |-> "Error"],
     [isError |-> FALSE, message |-> "boom", name |-> None]}

\* error instanceof Error ? error.message : String(error)
messageOf(error) == error.message

\* the adapter's error leaving startOAuth as it is
AuthorizeRethrown(error) ==
    [NoResult EXCEPT !.kind = IF error.isError THEN "Error" ELSE "string",
                     !.msg = <<"", messageOf(error)>>]

\* the catch of lines 95-99
AuthorizeFailed(error) == OAuthFlowError("Failed to start OAuth: ", messageOf(error))

\* line 90 throws
StartOAuthAuthorizeThrows(r, error) ==
    /\ At(r, "so_authorize")
    /\ Finish(r, [req[r] EXCEPT !.thrown = error], AuthorizeFailed(error))
    /\ UNCHANGED <<now, store, minted, setup, tok>>

\* ------------------------------------------------------- handleCallback
\* the code and state query parameters of the callback requests
CallbackParams ==
    {[code |-> None, state |-> "{json}"], [code |-> "code-1", state |-> None]}
    \cup {[code |-> "code-1", state |-> st] : st \in {"{bad", "{json}"}}

\* the JSON texts a state parameter can carry: what startOAuth serialised for a
\* web and for a mobile flow, and the text null
StateTexts == {JSONstringify(state) : state \in StateObjects} \cup {"null"}

JsonOk(text) == text # "{bad"

\* for each text that startOAuth can serialise, the object with the members of
\* the text
Parsed ==
    [text \in StateTexts \ {"null"} |->
        CHOOSE state \in StateObjects : JSONstringify(state) = text]

\* JSON.parse of a state parameter; the other JSON text of the model is null
JSONparse(text) == IF text \in DOMAIN Parsed THEN Parsed[text] ELSE NullState

\* the error leaving handleCallback
CallbackThrown(message) ==
    [NoResult EXCEPT !.kind = "OAuthFlowError", !.msg = <<"", message>>]

\* c.text(`OAuth callback failed: ${message}`, 400)
CallbackFailed(message) ==
    [NoResult EXCEPT !.kind = "text", !.status = 400,
                     !.msg = <<"OAuth callback failed: ", message>>]

\* c.redirect(location)
Redirect(location) ==
    [NoResult EXCEPT !.kind = "redirect", !.status = 302, !.location = location]

\* what the OAuth session serialises to (oauthSession.toJSON())
toJSON(s, expiresAt) ==
    [did |-> s.did, accessToken |-> s.accessToken, refreshToken |-> s.refreshToken,
     handle |-> s.handle, pdsUrl |-> "https://pds.test", expiresAt |-> expiresAt,
     createdAt |-> NoTime, updatedAt |-> NoTime]

\* a callback handed to the OAuth client before its parameters are looked at
HandleCallbackStartUnchecked(r, b, params) ==
    /\ Arrive(r)
    /\ LET rq == [NewReq("handleCallback", b) EXCEPT !.params = params] IN
        Continue(r, [rq EXCEPT !.pc = "hc_callback",
                               !.trace = Log(rq, "oauthClient.callback")])
    /\ UNCHANGED <<now, store, minted, setup, tok>>

\* lines 107-126: the parameters, the state, then oauthClient.callback(params)
HandleCallbackStart(r, b, params) ==
    /\ Arrive(r)
    /\ LET code == params.code
           stateParam == params.state
           rq == [NewReq("handleCallback", b) EXCEPT !.params = params] IN
        IF ~Truthy(code) \/ ~Truthy(stateParam)
        THEN AtOnce(r, rq, CallbackFailed("Missing code or state parameters"))
        ELSE IF ~JsonOk(stateParam)
        THEN AtOnce(r, rq, CallbackFailed("Invalid state parameter"))
        ELSE Continue(r, [rq EXCEPT !.pc = "hc_callback",
                                     !.trace = Log(rq, "oauthClient.callback")])
    /\ UNCHANGED <<now, store, minted, setup, tok>>

\* line 126 throws
HandleCallbackAdapterThrows(r) ==
    /\ At(r, "hc_callback")
    /\ Finish(r, req[r], CallbackFailed("callback error"))
    /\ UNCHANGED <<now, store, minted, setup, tok>>

\* the session the OAuth client answers with: the tokens it issued
IssuedSession(did, refreshToken) ==
    [did |-> did, accessToken |-> tok + 1, refreshToken |-> refreshToken,
     handle |-> HandleOf(did), timeUntilExpiry |-> NoTime]

\* a handleCallback that saves the cookie before it writes the record
HandleCallbackSetThrowsAfterCookie(r) ==
    /\ At(r, "hc_callback")
    /\ tok < MaxTok
    /\ tok' = tok + 1
    /\ \E d \in DIDs :
          Finish(r, [req[r] EXCEPT !.did = d, !.setCookie = "save",
                                   !.session = [did |-> d, createdAt |-> now,
                                                lastAccessed |-> now],
                                   !.trace = Append(Log(req[r], "session.save"),
                                                    "storage.set")],
                 CallbackFailed("storage error"))
    /\ UNCHANGED <<now, store, minted, setup>>

\* lines 126-133: the client returns a session and storage.set throws.  (The
\* client's answer changes nothing another request can see, so its return is
\* taken in one step with the storage call that follows it.)
HandleCallbackSetThrows(r) ==
    /\ At(r, "hc_callback")
    /\ tok < MaxTok
    /\ tok' = tok + 1
    /\ \E d \in DIDs :
          Finish(r, [req[r] EXCEPT !.did = d, !.trace = Log(req[r], "storage.set")],
                 CallbackFailed("storage error"))
    /\ UNCHANGED <<now, store, minted, setup>>

\* a cookie session made without the did
NewSessionAnonymous(did) == [did |-> None, createdAt |-> now, lastAccessed |-> now]

\* the cookie session of lines 136-139
NewSession(did) == [did |-> did, createdAt |-> now, lastAccessed |-> now]

\* a mobile redirect that never carries the refresh token
MobileCallbackUrlWithoutRefresh(sealedToken, did, state, s) ==
    [to |-> manager.config.mobileScheme, session_token |-> sealedToken, did |-> did,
     handle |-> state.handle,
     access_token |-> IF TruthyToken(s.accessToken) THEN s.accessToken ELSE NoToken,
     refresh_token |-> NoToken]

\* the mobile redirect of lines 149-161
MobileCallbackUrl(sealedToken, did, state, s) ==
    [to |-> manager.config.mobileScheme, session_token |-> sealedToken, did |-> did,
     handle |-> state.handle,
     access_token |-> IF TruthyToken(s.accessToken) THEN s.accessToken ELSE NoToken,
     refresh_token |-> IF TruthyToken(s.refreshToken) THEN s.refreshToken ELSE NoToken]

WebRedirect == [NoLocation EXCEPT !.to = "/"]

\* lines 136-169, after the record is written: the cookie, then the redirect;
\* saveOk is whether session.save() of line 140 succeeds
HandleCallbackAnswer(r, rq, saveOk) ==
    LET state == JSONparse(rq.params.state)
        sealedToken == sealData([did |-> rq.did], cookieSecret)
        saved == [rq EXCEPT !.session = NewSession(rq.did), !.setCookie = "save"] IN
    IF ~saveOk
    THEN /\ Finish(r, rq, CallbackFailed("save error"))
         /\ minted' = minted
    ELSE IF state.isNull
    THEN /\ Finish(r, saved, CallbackFailed("Cannot read properties of null"))
         /\ minted' = minted
    ELSE IF state.mobile
    THEN /\ Finish(r, saved,
                   Redirect(MobileCallbackUrl(sealedToken, rq.did, state, rq.oauthSession)))
         /\ minted' = minted \cup {sealedToken}
    ELSE /\ Finish(r, saved, Redirect(WebRedirect))
         /\ minted' = minted

\* a store that keeps the record a DID already has
StoredOnce(did, completeSessionData) ==
    IF store[sessionKey(did)] # NoData THEN store
    ELSE [store EXCEPT ![sessionKey(did)] = completeSessionData]

\* the store after storage.set(`session:${did}`, completeSessionData) (line 133)
Stored(did, completeSessionData) ==
    [store EXCEPT ![sessionKey(did)] = completeSessionData]

\* the state texts a callback can bring at this time: a state that startOAuth
\* has serialised by now, or null
Brought == {text \in StateTexts : JSONparse(text).timestamp <= now}

\* lines 126-165: the client returns a session, the record is written under
\* session:{did}, then the cookie and the redirect.  What the state carries is
\* first looked at in line 143, after the cookie is saved: it is drawn here.
HandleCallbackSet(r, saveOk) ==
    /\ At(r, "hc_callback")
    /\ tok < MaxTok
    /\ tok' = tok + 1
    /\ \E d \in DIDs, refreshToken \in {NoToken, tok + 1},
          expiresAt \in {NoTime} \cup {now + o : o \in ExpiryOffsets},
          stateText \in IF saveOk THEN Brought ELSE {req[r].params.state} :
          LET s == IssuedSession(d, refreshToken)
              rq == [req[r] EXCEPT !.did = d, !.oauthSession = s,
                                   !.params.state = stateText,
                                   !.updated = toJSON(s, expiresAt),
                                   !.trace = Append(Log(req[r], "storage.set"), "session.save")] IN
          /\ store' = Stored(d, rq.updated)
          /\ HandleCallbackAnswer(r, rq, saveOk)
    /\ UNCHANGED <<now, setup>>

\* ------------------------------------------------------ validateSession
Valid(did, oauthData) ==
    [NoResult EXCEPT !.kind = "valid", !.did = did, !.handle = oauthData.handle]

Invalid == [NoResult EXCEPT !.kind = "invalid"]

\* throw new SessionError(`Session validation failed: ${message}`)
SessionError(prefix, message) ==
    [NoResult EXCEPT !.kind = "SessionError", !.msg = <<prefix, message>>]

\* lines 177-188: the cookie is unsealed; without a did the answer is
\* {valid: false}; else lastAccessed is touched, the cookie saved and
\* storage.get called
ValidateSessionStart(r, b, saveOk) ==
    /\ Arrive(r)
    /\ LET rq == [NewReq("validateSession", b) EXCEPT
                     !.session = jar[b], !.did = jar[b].did] IN
        IF ~Truthy(rq.session.did)
        THEN AtOnce(r, rq, Invalid)
        ELSE LET touched == [rq EXCEPT !.session.lastAccessed = now,
                                       !.trace = Log(rq, "session.save")] IN
             IF ~saveOk
             THEN AtOnce(r, touched, SessionError("Session validation failed: ", "save error"))
             ELSE Continue(r, [touched EXCEPT !.setCookie = "save", !.pc = "vs_get",
                                              !.trace = Log(touched, "storage.get")])
    /\ UNCHANGED <<now, store, minted, setup, tok>>

\* the error of storage.get
StorageFailure == [isError |-> TRUE, message |-> "storage error", name |-> "Error"]

\* a store that fails taken for a store without the record
GetFailureAsAbsent(r, rq) == Finish(r, Destroyed(rq), Invalid)

\* the outer catch (lines 257-261) for the error of storage.get
GetFailure(r, rq) ==
    Finish(r, rq, SessionError("Session validation failed: ", messageOf(rq.thrown)))

\* line 188 throws
ValidateSessionGetThrows(r) ==
    /\ At(r, "vs_get")
    /\ GetFailure(r, [req[r] EXCEPT !.thrown = StorageFailure])
    /\ UNCHANGED <<now, store, minted, setup, tok>>

\* a window that ends before the boundary
isExpiredBeforeBoundary(oauthData) ==
    TruthyMs(oauthData.expiresAt) /\ now + RefreshWindowMs > oauthData.expiresAt

\* lines 198-199
isExpired(oauthData) ==
    TruthyMs(oauthData.expiresAt) /\ now + RefreshWindowMs >= oauthData.expiresAt

\* a refresh only while no other request is refreshing the record
NeedsRefreshOnce(oauthData) ==
    /\ isExpired(oauthData) /\ TruthyToken(oauthData.refreshToken) /\ hasRefresh
    /\ \A q \in Reqs : ~(req[q].pc = "vs_refresh" /\ req[q].oauthData.did = oauthData.did)

\* line 201
NeedsRefresh(oauthData) ==
    isExpired(oauthData) /\ TruthyToken(oauthData.refreshToken) /\ hasRefresh

\* lines 205-224
sessionForRefresh(oauthData) ==
    [did |-> oauthData.did, accessToken |-> oauthData.accessToken,
     refreshToken |-> oauthData.refreshToken, handle |-> oauthData.handle,
     timeUntilExpiry |-> IF TruthyMs(oauthData.expiresAt)
                         THEN Max(0, oauthData.expiresAt - now) ELSE 0]

\* a validateSession that turns down a record whose token has expired and
\* cannot be refreshed
ValidateSessionReadStrict(r) ==
    /\ LET oauthData == store[sessionKey(req[r].session.did)]
           rq == [req[r] EXCEPT !.oauthData = oauthData, !.at = now] IN
        IF oauthData = NoData
        THEN Finish(r, Destroyed(rq), Invalid)
        ELSE IF NeedsRefresh(oauthData)
        THEN Continue(r, [rq EXCEPT !.pc = "vs_refresh",
                                    !.oauthSession = sessionForRefresh(oauthData),
                                    !.trace = Log(rq, "oauthClient.refresh")])
        ELSE IF TruthyMs(oauthData.expiresAt) /\ now >= oauthData.expiresAt
        THEN Finish(r, Destroyed(rq), Invalid)
        ELSE Finish(r, rq, Valid(rq.session.did, oauthData))
    /\ UNCHANGED <<now, store, minted, setup, tok>>

\* lines 188-229: the record is read; absent, the cookie is destroyed and the
\* answer is {valid: false}; near expiry, oauthClient.refresh is called
ValidateSessionRead(r) ==
    /\ LET oauthData == store[sessionKey(req[r].session.did)]
           rq == [req[r] EXCEPT !.oauthData = oauthData, !.at = now] IN
        IF oauthData = NoData
        THEN Finish(r, Destroyed(rq), Invalid)
        ELSE IF NeedsRefresh(oauthData)
        THEN Continue(r, [rq EXCEPT !.pc = "vs_refresh",
                                    !.oauthSession = sessionForRefresh(oauthData),
                                    !.trace = Log(rq, "oauthClient.refresh")])
        ELSE Finish(r, rq, Valid(rq.session.did, oauthData))
    /\ UNCHANGED <<now, store, minted, setup, tok>>

\* a read that waits while another request refreshes the record
ValidateSessionGetAfterRefresh(r) ==
    /\ At(r, "vs_get")
    /\ \A q \in Reqs : ~(req[q].pc = "vs_refresh" /\ req[q].did = req[r].did)
    /\ ValidateSessionRead(r)

\* line 188 returns
ValidateSessionGet(r) == At(r, "vs_get") /\ ValidateSessionRead(r)

\* the error of the inner try block reaching the outer catch
RefreshRethrown(r, rq) ==
    Finish(r, rq, SessionError("Session validation failed: ", "refresh error"))

\* what validateSession does with an error of the inner try block (lines 245-256)
RefreshCaught(r, rq) == Finish(r, rq, Valid(rq.session.did, rq.oauthData))

\* a failed refresh that takes the refresh token out of the record
ValidateSessionRefreshGivesUp(r) ==
    /\ At(r, "vs_refresh")
    /\ RefreshCaught(r, [req[r] EXCEPT !.caught = "refresh"])
    /\ store' = [store EXCEPT ![sessionKey(req[r].did)].refreshToken = NoToken]
    /\ UNCHANGED <<now, minted, setup, tok>>

\* lines 227-229 throw
ValidateSessionRefreshThrows(r) ==
    /\ At(r, "vs_refresh")
    /\ RefreshCaught(r, [req[r] EXCEPT !.caught = "refresh"])
    /\ UNCHANGED <<now, store, minted, setup, tok>>

\* a record that takes the refresh token of the refreshed session as it is
updatedSessionDataOfRefreshedOnly(oauthData, refreshedSession) ==
    [oauthData EXCEPT
        !.accessToken = refreshedSession.accessToken,
        !.refreshToken = refreshedSession.refreshToken,
        !.expiresAt = IF TruthyMs(refreshedSession.timeUntilExpiry)
                      THEN now + refreshedSession.timeUntilExpiry ELSE NoTime,
        !.updatedAt = now]

\* a record that keeps its expiry when the refreshed session has none
updatedSessionDataKeepingExpiry(oauthData, refreshedSession) ==
    [oauthData EXCEPT
        !.accessToken = refreshedSession.accessToken,
        !.refreshToken = IF TruthyToken(refreshedSession.refreshToken)
                         THEN refreshedSession.refreshToken ELSE oauthData.refreshToken,
        !.expiresAt = IF TruthyMs(refreshedSession.timeUntilExpiry)
                      THEN now + refreshedSession.timeUntilExpiry ELSE oauthData.expiresAt,
        !.updatedAt = now]

\* lines 232-240
updatedSessionData(oauthData, refreshedSession) ==
    [oauthData EXCEPT
        !.accessToken = refreshedSession.accessToken,
        !.refreshToken = IF TruthyToken(refreshedSession.refreshToken)
                         THEN refreshedSession.refreshToken ELSE oauthData.refreshToken,
        !.expiresAt = IF TruthyMs(refreshedSession.timeUntilExpiry)
                      THEN now + refreshedSession.timeUntilExpiry ELSE NoTime,
        !.updatedAt = now]

\* the session oauthClient.refresh answers with
RefreshedSession(oauthData, refreshToken, timeUntilExpiry) ==
    [did |-> oauthData.did, accessToken |-> tok + 1, refreshToken |-> refreshToken,
     handle |-> oauthData.handle, timeUntilExpiry |-> timeUntilExpiry]

\* lines 227-242: the client returns new tokens and storage.set throws
ValidateSessionSetThrows(r) ==
    /\ At(r, "vs_refresh")
    /\ tok < MaxTok
    /\ tok' = tok + 1
    /\ RefreshCaught(r, [req[r] EXCEPT !.caught = "set",
                                       !.trace = Log(req[r], "storage.set")])
    /\ UNCHANGED <<now, store, minted, setup>>

\* the store after storage.set(`session:${did}`, updatedSessionData)
Refreshed(did, updated) == [store EXCEPT ![sessionKey(did)] = updated]

\* lines 227-256: the client returns new tokens, the record is rewritten
ValidateSessionSet(r) ==
    /\ At(r, "vs_refresh")
    /\ tok < MaxTok
    /\ tok' = tok + 1
    /\ \E refreshToken \in {NoToken, tok + 1}, timeUntilExpiry \in {0} \cup ExpiryOffsets :
          LET refreshedSession ==
                  RefreshedSession(req[r].oauthData, refreshToken, timeUntilExpiry)
              rq == [req[r] EXCEPT
                        !.refreshed = refreshedSession,
                        !.updated = updatedSessionData(req[r].oauthData, refreshedSession),
                        !.trace = Log(req[r], "storage.set")] IN
          /\ store' = Refreshed(rq.session.did, rq.updated)
          /\ Finish(r, rq, Valid(rq.session.did, rq.oauthData))
    /\ UNCHANGED <<now, minted, setup>>

\* ------------------------------------------------ validateMobileSession
MobileIntegrationError(prefix, message) ==
    [NoResult EXCEPT !.kind = "MobileIntegrationError", !.msg = <<prefix, message>>]

Bearer(token) == [scheme |-> "Bearer ", token |-> token]

\* the Authorization headers of the requests: a bearer token sealed with the
\* manager's secret or with another one, and a header of another scheme
Headers ==
    {Bearer(sealData([did |-> d], password)) :
        d \in DIDs, password \in {cookieSecret, OtherSecret}}
    \cup {[scheme |-> "Basic ", token |-> Garbage]}

\* a client holds a token of this manager's secret only if the manager minted it
Presentable(authHeader) ==
    authHeader.token.password = cookieSecret => authHeader.token \in minted

\* lines 276-294
ValidateMobileSessionStart(r, authHeader) ==
    /\ Arrive(r)
    /\ Presentable(authHeader)
    /\ LET sessionData == unsealData(authHeader.token, cookieSecret)
           rq == [NewReq("validateMobileSession", None) EXCEPT
                     !.authHeader = authHeader, !.did = sessionData.did] IN
        IF authHeader.scheme # "Bearer "
        THEN AtOnce(r, rq, MobileIntegrationError("", "Invalid authorization header"))
        ELSE IF ~Truthy(sessionData.did)
        THEN AtOnce(r, rq, MobileIntegrationError("", "Invalid session token"))
        ELSE Continue(r, [rq EXCEPT !.pc = "vm_get", !.trace = Log(rq, "storage.get")])
    /\ UNCHANGED <<now, store, minted, setup, tok>>

\* lines 292-294 throw
ValidateMobileSessionGetThrows(r) ==
    /\ At(r, "vm_get")
    /\ Finish(r, req[r],
              MobileIntegrationError("Mobile session validation failed: ", "storage error"))
    /\ UNCHANGED <<now, store, minted, setup, tok>>

\* the answer if the token alone vouched for the DID
MobileAnswerByToken(did, oauthData) == Valid(did, oauthData)

\* an absent record raised as an error
MobileAnswerRaising(did, oauthData) ==
    IF oauthData = NoData THEN MobileIntegrationError("", "Session not found")
    ELSE Valid(did, oauthData)

\* a token that is good only for the record of the first sign-in
MobileAnswerFirstRecordOnly(did, oauthData) ==
    IF oauthData = NoData \/ oauthData.accessToken # 1 THEN Invalid
    ELSE Valid(did, oauthData)

\* what validateMobileSession answers for the record storage.get returned
\* (lines 295-304)
MobileAnswer(did, oauthData) ==
    IF oauthData = NoData THEN Invalid ELSE Valid(did, oauthData)

\* lines 292-304
ValidateMobileSessionGet(r) ==
    /\ At(r, "vm_get")
    /\ LET oauthData == store[sessionKey(req[r].did)] IN
        Finish(r, [req[r] EXCEPT !.oauthData = oauthData],
               MobileAnswer(req[r].did, oauthData))
    /\ UNCHANGED <<now, store, minted, setup, tok>>

\* --------------------------------------------------------------- logout
LoggedOut == [NoResult EXCEPT !.kind = "ok"]

\* lines 400-408: with a did, storage.delete is called; without, the cookie is
\* destroyed at once
LogoutStart(r, b) ==
    /\ Arrive(r)
    /\ LET rq == [NewReq("logout", b) EXCEPT !.session = jar[b], !.did = jar[b].did] IN
        IF Truthy(rq.session.did)
        THEN Continue(r, [rq EXCEPT !.pc = "lo_delete", !.trace = Log(rq, "storage.delete")])
        ELSE AtOnce(r, Destroyed(rq), LoggedOut)
    /\ UNCHANGED <<now, store, minted, setup, tok>>

\* line 404 throws
LogoutDeleteThrows(r) ==
    /\ At(r, "lo_delete")
    /\ Finish(r, req[r], SessionError("Logout failed: ", "storage error"))
    /\ UNCHANGED <<now, store, minted, setup, tok>>

\* a logout that clears the store
DeletedAll(did) == [key \in Keys |-> NoData]

\* the store after storage.delete(`session:${did}`)
Deleted(did) == [store EXCEPT ![sessionKey(did)] = NoData]

\* lines 404-408
LogoutDelete(r) ==
    /\ At(r, "lo_delete")
    /\ store' = Deleted(req[r].did)
    /\ Finish(r, Destroyed(req[r]), LoggedOut)
    /\ UNCHANGED <<now, minted, setup, tok>>

\* --------------------------------------------------- refreshMobileToken
\* {success: false, error: "OAuth session not found"} (lines 341-346)
SessionNotFound ==
    [NoResult EXCEPT !.kind = "failure", !.msg = <<"", "OAuth session not found">>]

\* the error leaving refreshMobileToken as it was thrown
TokenRefreshThrown(message) == MobileIntegrationError("", message)

\* the outer catch (lines 387-392): {success: false, error: `Token refresh
\* failed: ${message}`}
TokenRefreshFailed(message) ==
    [NoResult EXCEPT !.kind = "failure", !.msg = <<"Token refresh failed: ", message>>]

\* {success: true, payload: {did, sid}}
RefreshSuccess(did, sid) == [NoResult EXCEPT !.kind = "success", !.did = did, !.sid = sid]

\* lines 322-340
RefreshMobileTokenStart(r, authHeader) ==
    /\ Arrive(r)
    /\ Presentable(authHeader)
    /\ LET sessionData == unsealData(authHeader.token, cookieSecret)
           rq == [NewReq("refreshMobileToken", None) EXCEPT
                     !.authHeader = authHeader, !.did = sessionData.did] IN
        IF authHeader.scheme # "Bearer "
        THEN AtOnce(r, rq, TokenRefreshFailed("Invalid authorization header"))
        ELSE IF ~Truthy(sessionData.did)
        THEN AtOnce(r, rq, TokenRefreshFailed("Invalid session token"))
        ELSE Continue(r, [rq EXCEPT !.pc = "rm_get", !.trace = Log(rq, "storage.get")])
    /\ UNCHANGED <<now, store, minted, setup, tok>>

\* lines 338-340 throw
RefreshMobileTokenGetThrows(r) ==
    /\ At(r, "rm_get")
    /\ Finish(r, [req[r] EXCEPT !.caught = "get"], TokenRefreshFailed("storage error"))
    /\ UNCHANGED <<now, store, minted, setup, tok>>

\* what oauthClient.restore does: it returns a session, returns null or throws
RestoreOutcomes == {"session", "null", "throws"}

\* a refresh that needs restore to return a session
AfterRestoreStrict(did, outcome) ==
    IF outcome = "session" THEN RefreshSuccess(did, sealData([did |-> did], cookieSecret))
    ELSE TokenRefreshFailed("restore error")

\* lines 349-386: with a session the token is sealed in lines 355-366; without
\* one, or when restore throws (lines 368-371), in lines 375-386
AfterRestore(did, outcome) == RefreshSuccess(did, sealData([did |-> did], cookieSecret))

\* lines 338-349, and 375-386 for a client without restore
RefreshMobileTokenGet(r) ==
    /\ At(r, "rm_get")
    /\ LET oauthData == store[sessionKey(req[r].did)]
           rq == [req[r] EXCEPT !.oauthData = oauthData] IN
        IF oauthData = NoData
        THEN Finish(r, rq, SessionNotFound) /\ minted' = minted
        ELSE IF hasRestore
        THEN /\ Continue(r, [rq EXCEPT !.pc = "rm_restore",
                                       !.trace = Log(rq, "oauthClient.restore")])
             /\ minted' = minted
        ELSE /\ Finish(r, rq, RefreshSuccess(rq.did, sealData([did |-> rq.did], cookieSecret)))
             /\ minted' = minted \cup {sealData([did |-> rq.did], cookieSecret)}
    /\ UNCHANGED <<now, store, setup, tok>>

\* a refreshMobileToken that writes the record back, as the first versions of
\* the manager did
RefreshMobileTokenRestoreStoring(r, outcome) ==
    /\ At(r, "rm_restore")
    /\ LET rq == [req[r] EXCEPT !.caught = outcome,
                                !.trace = Log(req[r], "storage.set")]
           res == AfterRestore(rq.did, outcome) IN
        /\ Finish(r, rq, res)
        /\ minted' = IF res.kind = "success" THEN minted \cup {res.sid} ELSE minted
    /\ store' = [store EXCEPT ![sessionKey(req[r].did)].updatedAt = now]
    /\ UNCHANGED <<now, setup, tok>>

\* lines 351-386
RefreshMobileTokenRestore(r, outcome) ==
    /\ At(r, "rm_restore")
    /\ LET rq == [req[r] EXCEPT !.caught = outcome]
           res == AfterRestore(rq.did, outcome) IN
        /\ Finish(r, rq, res)
        /\ minted' = IF res.kind = "success" THEN minted \cup {res.sid} ELSE minted
    /\ UNCHANGED <<now, store, setup, tok>>

\* --------------------------------------------------- getStoredOAuthData
\* the key the first versions of the manager read
storedDataKeyBefore(did) == sessionKeyBefore(did)

\* line 421: `session:${did}`
storedDataKey(did) == sessionKey(did)

\* the record, or null (NoData), returned
StoredData(data) == [NoResult EXCEPT !.kind = "data", !.data = data]

\* lines 419-421
GetStoredOAuthData(r, did) ==
    /\ Arrive(r)
    /\ LET rq == [NewReq("getStoredOAuthData", None) EXCEPT !.did = did] IN
        Continue(r, [rq EXCEPT !.pc = "gd_get", !.trace = Log(rq, "storage.get")])
    /\ UNCHANGED <<now, store, minted, setup, tok>>

\* lines 422-426
GetStoredOAuthDataThrows(r) ==
    /\ At(r, "gd_get")
    /\ Finish(r, [req[r] EXCEPT !.caught = "get"],
              SessionError("Failed to get OAuth session: ", "storage error"))
    /\ UNCHANGED <<now, store, minted, setup, tok>>

\* line 421 returns
GetStoredOAuthDataGet(r) ==
    /\ At(r, "gd_get")
    /\ LET data == store[storedDataKey(req[r].did)] IN
        Finish(r, [req[r] EXCEPT !.oauthData = data], StoredData(data))
    /\ UNCHANGED <<now, store, minted, setup, tok>>

\* ------------------------------------------------------ getOAuthSession
\* the typed errors of the OAuth client's restore
RestoreErrorNames ==
    {"SessionNotFoundError", "RefreshTokenExpiredError", "RefreshTokenRevokedError",
     "NetworkError", "TokenExchangeError"}

RestoreErrors ==
    {[isError |-> TRUE, message |-> "restore failed", name |-> name] :
        name \in RestoreErrorNames}

\* calling restore on a client that has none
NotAFunction ==
    [isError |-> TRUE, message |-> "restore is not a function", name |-> "TypeError"]

\* the session, or null (NoOAuthSession), returned
Restored(session) == [NoResult EXCEPT !.kind = "session", !.session = session]

\* the session restore answers with for a DID
RestoredSession(did) ==
    [NoOAuthSession EXCEPT !.did = did, !.handle = HandleOf(did),
                           !.accessToken = store[sessionKey(did)].accessToken,
                           !.refreshToken = store[sessionKey(did)].refreshToken]

\* lines 445-448; lines 449-452 for a client without restore
GetOAuthSession(r, did) ==
    /\ Arrive(r)
    /\ LET rq == [NewReq("getOAuthSession", None) EXCEPT
                     !.did = did, !.trace = <<"oauthClient.restore">>] IN
        IF hasRestore THEN Continue(r, [rq EXCEPT !.pc = "go_restore"])
        ELSE AtOnce(r, [rq EXCEPT !.thrown = NotAFunction], Restored(NoOAuthSession))
    /\ UNCHANGED <<now, store, minted, setup, tok>>

\* line 448 returns a session, or null
GetOAuthSessionRestore(r, found) ==
    /\ At(r, "go_restore")
    /\ Finish(r, req[r],
              Restored(IF found THEN RestoredSession(req[r].did) ELSE NoOAuthSession))
    /\ UNCHANGED <<now, store, minted, setup, tok>>

\* lines 449-452: restore throws
GetOAuthSessionRestoreThrows(r, error) ==
    /\ At(r, "go_restore")
    /\ Finish(r, [req[r] EXCEPT !.thrown = error], Restored(NoOAuthSession))
    /\ UNCHANGED <<now, store, minted, setup, tok>>

\* ------------------------------------------- getOAuthSessionFromRequest
\* the values of the cookies of a request: no seal, or a session sealed with
\* the manager's secret or with another one
SealedCookies ==
    {Garbage} \cup {sealData([did |-> d], password) :
                       d \in DIDs, password \in {cookieSecret, OtherSecret}}

\* the requests: without a cookie header, or with a header of two cookies
Requests ==
    {NoCookieHeader}
    \cup {[hasCookie |-> TRUE,
           cookies |-> <<[name |-> "other", value |-> Garbage],
                         [name |-> name, value |-> value]>>] :
             name \in {"sid", "custom_session", "another"}, value \in SealedCookies}

\* a browser holds a cookie of this manager's secret only while it is signed in
Sendable(request) ==
    \A i \in 1..Len(request.cookies) :
        request.cookies[i].value.password = cookieSecret =>
            \E b \in Browsers : jar[b].did = request.cookies[i].value.data.did

NoCookie == [present |-> FALSE, value |-> Garbage]

\* the last cookie of the header, whatever its name
lastCookie(request, name) ==
    IF ~request.hasCookie THEN NoCookie
    ELSE [present |-> TRUE, value |-> request.cookies[Len(request.cookies)].value]

\* the cookie pair that starts with `${cookieName}=`, its value what follows
\* the first =
sessionCookie(request, name) ==
    LET found == {i \in 1..Len(request.cookies) : request.cookies[i].name = name} IN
    IF ~request.hasCookie \/ found = {} THEN NoCookie
    ELSE [present |-> TRUE,
          value |-> request.cookies[CHOOSE i \in found : \A j \in found : i <= j].value]

\* an error of restore reaching the caller
Propagated(error) == [NoResult EXCEPT !.kind = error.name, !.msg = <<"", error.message>>]

\* the cookie is looked up and unsealed; with a did, restore is called
GetOAuthSessionFromRequest(r, request) ==
    /\ Arrive(r)
    /\ Sendable(request)
    /\ LET cookie == sessionCookie(request, manager.config.cookieName)
           sessionData == unsealData(cookie.value, cookieSecret)
           rq == [NewReq("getOAuthSessionFromRequest", None) EXCEPT
                     !.request = request, !.did = sessionData.did] IN
        IF ~cookie.present \/ ~Truthy(sessionData.did)
        THEN AtOnce(r, rq, Restored(NoOAuthSession))
        ELSE IF ~hasRestore
        THEN AtOnce(r, [rq EXCEPT !.thrown = NotAFunction,
                                  !.trace = Log(rq, "oauthClient.restore")],
                    Propagated(NotAFunction))
        ELSE Continue(r, [rq EXCEPT !.pc = "gr_restore",
                                    !.trace = Log(rq, "oauthClient.restore")])
    /\ UNCHANGED <<now, store, minted, setup, tok>>

\* restore returns a session, or null
GetOAuthSessionFromRequestRestore(r, found) ==
    /\ At(r, "gr_restore")
    /\ Finish(r, req[r],
              Restored(IF found THEN RestoredSession(req[r].did) ELSE NoOAuthSession))
    /\ UNCHANGED <<now, store, minted, setup, tok>>

\* restore throws
GetOAuthSessionFromRequestRestoreThrows(r, error) ==
    /\ At(r, "gr_restore")
    /\ Finish(r, [req[r] EXCEPT !.thrown = error], Propagated(error))
    /\ UNCHANGED <<now, store, minted, setup, tok>>

\* ------------------------------------------------- getClearCookieHeader
\* the header of the default cookie name
clearCookieHeaderOfSid == "sid=; Path=/; HttpOnly; SameSite=Lax; Secure; Max-Age=0"

\* the Set-Cookie header that clears the session cookie
getClearCookieHeader ==
    manager.config.cookieName \o "=; Path=/; HttpOnly; SameSite=Lax; Secure; Max-Age=0"

GetClearCookieHeader(r) ==
    /\ Arrive(r)
    /\ AtOnce(r, NewReq("getClearCookieHeader", None),
              [NoResult EXCEPT !.kind = "header", !.header = getClearCookieHeader])
    /\ UNCHANGED <<now, store, minted, setup, tok>>

\* --------------------------------------------------------------- return
Return(r) ==
    /\ req[r].pc = "done"
    /\ req' = Placed([req EXCEPT ![r] = IdleReq])
    /\ prev' = IF Alone(r) THEN Before(req[r]) ELSE NoneBefore
    /\ UNCHANGED <<now, store, jar, minted, setup, tok, loggedOut>>

\* ---------------------------------------------------------------- clock
Tick ==
    /\ Quiet /\ now < StartMs + MaxTicks * 1000
    /\ now' = now + 1000
    /\ UNCHANGED <<store, jar, minted, setup, tok, req, prev, loggedOut>>

\* -------------------------------------------------------- specification
\* a store without records
EmptyStore == [key \in Keys |-> NoData]

\* no call made yet
Unused ==
    /\ now = StartMs
    /\ minted = {}
    /\ hasRefresh \in BOOLEAN
    /\ tok = 0
    /\ req = [r \in Reqs |-> IdleReq]
    /\ prev = NoneBefore
    /\ loggedOut = [d \in DIDs |-> FALSE]

\* no call made yet, no record stored and no browser signed in
Fresh ==
    /\ Unused
    /\ store = EmptyStore
    /\ jar = [b \in Browsers |-> NoSession]

Next ==
    \/ \E r \in Reqs, b \in Browsers, params \in CallbackParams :
          HandleCallbackStart(r, b, params)
    \/ \E r \in Reqs : HandleCallbackAdapterThrows(r)
    \/ \E r \in Reqs : HandleCallbackSetThrows(r)
    \/ \E r \in Reqs, saveOk \in BOOLEAN : HandleCallbackSet(r, saveOk)
    \/ \E r \in Reqs, b \in Browsers, saveOk \in BOOLEAN : ValidateSessionStart(r, b, saveOk)
    \/ \E r \in Reqs : ValidateSessionGetThrows(r)
    \/ \E r \in Reqs : ValidateSessionGet(r)
    \/ \E r \in Reqs : ValidateSessionRefreshThrows(r)
    \/ \E r \in Reqs : ValidateSessionSetThrows(r)
    \/ \E r \in Reqs : ValidateSessionSet(r)
    \/ \E r \in Reqs, authHeader \in Headers : ValidateMobileSessionStart(r, authHeader)
    \/ \E r \in Reqs : ValidateMobileSessionGetThrows(r)
    \/ \E r \in Reqs : ValidateMobileSessionGet(r)
    \/ \E r \in Reqs, b \in Browsers : LogoutStart(r, b)
    \/ \E r \in Reqs : LogoutDeleteThrows(r)
    \/ \E r \in Reqs : LogoutDelete(r)
    \/ \E r \in Reqs : Return(r)
    \/ Tick

\* a manager constructed with the required members only
Plain ==
    Fresh /\ config = RequiredOnly /\ manager = constructor(config) /\ hasRestore = TRUE

Start == Plain /\ keepFailed = FALSE

\* method calls may overlap
Init == Start /\ overlap = TRUE

Spec == Init /\ [][Next]_vars

\* the same methods, called one at a time
SeqInit == Start /\ overlap = FALSE

SeqSpec == SeqInit /\ [][Next]_vars

\* the constructor alone, on every configuration
ConfigInit ==
    /\ Fresh /\ overlap = FALSE /\ hasRestore = TRUE /\ keepFailed = FALSE
    /\ config \in Configs /\ manager = NotConstructed

ConfigNext == Construct

ConfigSpec == ConfigInit /\ [][ConfigNext]_vars

\* startOAuth alone, one call at a time
AuthNext ==
    \/ \E r \in Reqs, handle \in Handles, options \in Options : StartOAuth(r, handle, options)
    \/ \E r \in Reqs : StartOAuthAuthorize(r)
    \/ \E r \in Reqs, error \in AuthorizeErrors : StartOAuthAuthorizeThrows(r, error)
    \/ \E r \in Reqs : Return(r)
    \/ Tick

AuthSpec == SeqInit /\ [][AuthNext]_vars

\* the OAuth flow alone: startOAuth and handleCallback, one call at a time
FlowNext ==
    \/ \E r \in Reqs, handle \in Handles, options \in Options : StartOAuth(r, handle, options)
    \/ \E r \in Reqs : StartOAuthAuthorize(r)
    \/ \E r \in Reqs, error \in AuthorizeErrors : StartOAuthAuthorizeThrows(r, error)
    \/ \E r \in Reqs, b \in Browsers, params \in CallbackParams :
          HandleCallbackStart(r, b, params)
    \/ \E r \in Reqs : HandleCallbackAdapterThrows(r)
    \/ \E r \in Reqs : HandleCallbackSetThrows(r)
    \/ \E r \in Reqs, saveOk \in BOOLEAN : HandleCallbackSet(r, saveOk)
    \/ \E r \in Reqs : Return(r)
    \/ Tick

FlowSpec == SeqInit /\ [][FlowNext]_vars

\* sign-in and validateSession, one call at a time, prev keeping a
\* validateSession that met a failing store
RetryInit == Plain /\ overlap = FALSE /\ keepFailed = TRUE

RetryNext ==
    \/ \E r \in Reqs, b \in Browsers, params \in CallbackParams :
          HandleCallbackStart(r, b, params)
    \/ \E r \in Reqs : HandleCallbackAdapterThrows(r)
    \/ \E r \in Reqs : HandleCallbackSetThrows(r)
    \/ \E r \in Reqs, saveOk \in BOOLEAN : HandleCallbackSet(r, saveOk)
    \/ \E r \in Reqs, b \in Browsers, saveOk \in BOOLEAN : ValidateSessionStart(r, b, saveOk)
    \/ \E r \in Reqs : ValidateSessionGetThrows(r)
    \/ \E r \in Reqs : ValidateSessionGet(r)
    \/ \E r \in Reqs : ValidateSessionRefreshThrows(r)
    \/ \E r \in Reqs : ValidateSessionSetThrows(r)
    \/ \E r \in Reqs : ValidateSessionSet(r)
    \/ \E r \in Reqs : Return(r)
    \/ Tick

RetrySpec == RetryInit /\ [][RetryNext]_vars

\* the methods beside validateSession, one call at a time, on a manager with
\* the default or with a custom cookie name and mobile scheme, and an OAuth
\* client with or without restore
ApiConfigs ==
    {RequiredOnly,
     [RequiredOnly EXCEPT !.cookieName = "custom_session",
                          !.mobileScheme = "myapp://auth-callback"]}

ApiInit ==
    /\ Fresh /\ hasRefresh = TRUE /\ overlap = FALSE /\ keepFailed = FALSE
    /\ hasRestore \in BOOLEAN
    /\ config \in ApiConfigs /\ (hasRestore \/ config = RequiredOnly)
    /\ manager = constructor(config)

ApiNext ==
    \/ \E r \in Reqs, b \in Browsers, params \in CallbackParams :
          HandleCallbackStart(r, b, params)
    \/ \E r \in Reqs : HandleCallbackAdapterThrows(r)
    \/ \E r \in Reqs : HandleCallbackSetThrows(r)
    \/ \E r \in Reqs, saveOk \in BOOLEAN : HandleCallbackSet(r, saveOk)
    \/ \E r \in Reqs, authHeader \in Headers : ValidateMobileSessionStart(r, authHeader)
    \/ \E r \in Reqs : ValidateMobileSessionGetThrows(r)
    \/ \E r \in Reqs : ValidateMobileSessionGet(r)
    \/ \E r \in Reqs, authHeader \in Headers : RefreshMobileTokenStart(r, authHeader)
    \/ \E r \in Reqs : RefreshMobileTokenGetThrows(r)
    \/ \E r \in Reqs : RefreshMobileTokenGet(r)
    \/ \E r \in Reqs, outcome \in RestoreOutcomes : RefreshMobileTokenRestore(r, outcome)
    \/ \E r \in Reqs, did \in DIDs : GetStoredOAuthData(r, did)
    \/ \E r \in Reqs : GetStoredOAuthDataThrows(r)
    \/ \E r \in Reqs : GetStoredOAuthDataGet(r)
    \/ \E r \in Reqs, did \in DIDs : GetOAuthSession(r, did)
    \/ \E r \in Reqs, found \in BOOLEAN : GetOAuthSessionRestore(r, found)
    \/ \E r \in Reqs, error \in RestoreErrors : GetOAuthSessionRestoreThrows(r, error)
    \/ \E r \in Reqs, request \in Requests : GetOAuthSessionFromRequest(r, request)
    \/ \E r \in Reqs, found \in BOOLEAN : GetOAuthSessionFromRequestRestore(r, found)
    \/ \E r \in Reqs, error \in RestoreErrors :
          GetOAuthSessionFromRequestRestoreThrows(r, error)
    \/ \E r \in Reqs : GetClearCookieHeader(r)
    \/ \E r \in Reqs, b \in Browsers : LogoutStart(r, b)
    \/ \E r \in Reqs : LogoutDeleteThrows(r)
    \/ \E r \in Reqs : LogoutDelete(r)
    \/ \E r \in Reqs : Return(r)
    \/ Tick

ApiSpec == ApiInit /\ [][ApiNext]_vars

\* validateSession alone, its calls overlapping, on a store that holds a
\* record of did:a from a sign-in before the behaviour starts, both browsers
\* holding a cookie of that sign-in
EarlierToken == 0 - 1

\* the records such a sign-in can have left: with or without refresh token,
\* without expiry, expired, near expiry or further from it
StoredBefore ==
    {[did |-> "did:a", accessToken |-> EarlierToken, refreshToken |-> refreshToken,
      handle |-> HandleOf("did:a"), pdsUrl |-> "https://pds.test",
      expiresAt |-> expiresAt, createdAt |-> NoTime, updatedAt |-> NoTime] :
        refreshToken \in {NoToken, EarlierToken},
        expiresAt \in {NoTime, StartMs - 1000} \cup {StartMs + o : o \in ExpiryOffsets}}

StoredInit ==
    /\ Unused
    /\ config = RequiredOnly /\ manager = constructor(config)
    /\ hasRestore = TRUE /\ overlap = TRUE /\ keepFailed = TRUE
    /\ store \in {[EmptyStore EXCEPT ![sessionKey("did:a")] = record] :
                     record \in StoredBefore}
    /\ jar = [b \in Browsers |->
                 [did |-> "did:a", createdAt |-> StartMs, lastAccessed |-> StartMs]]

StoredNext ==
    \/ \E r \in Reqs, b \in Browsers, saveOk \in BOOLEAN : ValidateSessionStart(r, b, saveOk)
    \/ \E r \in Reqs : ValidateSessionGetThrows(r)
    \/ \E r \in Reqs : ValidateSessionGet(r)
    \/ \E r \in Reqs : ValidateSessionRefreshThrows(r)
    \/ \E r \in Reqs : ValidateSessionSetThrows(r)
    \/ \E r \in Reqs : ValidateSessionSet(r)
    \/ \E r \in Reqs : Return(r)
    \/ Tick

StoredSpec == StoredInit /\ [][StoredNext]_vars

\* the methods that take the DID from a cookie, a token or the OAuth client,
\* called one at a time on a store that holds the record of another DID
OtherRecord(d) ==
    [did |-> d, accessToken |-> EarlierToken, refreshToken |-> EarlierToken,
     handle |-> HandleOf(d), pdsUrl |-> "https://pds.test",
     expiresAt |-> StartMs + 299000, createdAt |-> NoTime, updatedAt |-> NoTime]

IsolationInit ==
    /\ Unused /\ hasRefresh = TRUE
    /\ config = RequiredOnly /\ manager = constructor(config)
    /\ hasRestore = TRUE /\ overlap = FALSE /\ keepFailed = FALSE
    /\ store = [key \in Keys |->
                   IF \E d \in Others : key = sessionKey(d)
                   THEN OtherRecord(CHOOSE d \in Others : key = sessionKey(d))
                   ELSE NoData]
    /\ jar = [b \in Browsers |-> NoSession]

IsolationNext ==
    \/ \E r \in Reqs, b \in Browsers, params \in CallbackParams :
          HandleCallbackStart(r, b, params)
    \/ \E r \in Reqs : HandleCallbackAdapterThrows(r)
    \/ \E r \in Reqs : HandleCallbackSetThrows(r)
    \/ \E r \in Reqs, saveOk \in BOOLEAN : HandleCallbackSet(r, saveOk)
    \/ \E r \in Reqs, b \in Browsers, saveOk \in BOOLEAN : ValidateSessionStart(r, b, saveOk)
    \/ \E r \in Reqs : ValidateSessionGetThrows(r)
    \/ \E r \in Reqs : ValidateSessionGet(r)
    \/ \E r \in Reqs : ValidateSessionRefreshThrows(r)
    \/ \E r \in Reqs : ValidateSessionSetThrows(r)
    \/ \E r \in Reqs : ValidateSessionSet(r)
    \/ \E r \in Reqs, authHeader \in Headers : RefreshMobileTokenStart(r, authHeader)
    \/ \E r \in Reqs : RefreshMobileTokenGetThrows(r)
    \/ \E r \in Reqs : RefreshMobileTokenGet(r)
    \/ \E r \in Reqs, outcome \in RestoreOutcomes : RefreshMobileTokenRestore(r, outcome)
    \/ \E r \in Reqs, b \in Browsers : LogoutStart(r, b)
    \/ \E r \in Reqs : LogoutDeleteThrows(r)
    \/ \E r \in Reqs : LogoutDelete(r)
    \/ \E r \in Reqs : Return(r)

IsolationSpec == IsolationInit /\ [][IsolationNext]_vars

\* -------------------------------------------------------------- properties
Done(r) == req[r].pc = "done"

Validations == {"validateSession", "validateMobileSession"}

Raised(rq) == rq.result.kind \in {"SessionError", "MobileIntegrationError"}

\* C1: validateSession and validateMobileSession answer valid:true for a DID
\* only if storage.get returned a record of that DID to them; when the store
\* holds no record for the DID of a cookie or token that unseals correctly,
\* the answer is valid:false.
StoreIsSourceOfTruth ==
    \A r \in Reqs :
        (Done(r) /\ req[r].op \in Validations) =>
            LET rq == req[r] IN
            /\ rq.result.kind = "valid" =>
                  /\ Called(rq, "storage.get")
                  /\ rq.oauthData # NoData
                  /\ rq.result.did = rq.did /\ rq.oauthData.did = rq.did
            /\ (~Called(rq, "oauthClient.refresh") /\ rq.result.kind = "valid") =>
                  store[sessionKey(rq.did)] = rq.oauthData
            /\ (Truthy(rq.did) /\ Called(rq, "storage.get") /\ ~Raised(rq)
                    /\ ~Called(rq, "oauthClient.refresh") /\ store[sessionKey(rq.did)] = NoData) =>
                  rq.result = Invalid

\* a mobile token that unseals to a DID whose record is gone is answered
\* valid:false
AbsentRecordBehindValidToken ==
    \E r \in Reqs :
        /\ Done(r) /\ req[r].op = "validateMobileSession"
        /\ req[r].authHeader.token \in minted
        /\ req[r].did = "did:a" /\ store[sessionKey("did:a")] = NoData
        /\ req[r].result = Invalid

\* C2: validateSession on a cookie whose did has no stored record answers
\* valid:false and destroys the cookie session; the next validateSession of
\* that browser answers valid:false at the "no did" step, with no call to the
\* store.
OrphanCookieSelfHeals ==
    \A r \in Reqs :
        (Done(r) /\ req[r].op = "validateSession") =>
            LET rq == req[r] IN
            /\ (Truthy(rq.did) /\ Called(rq, "storage.get") /\ ~Raised(rq)
                    /\ rq.oauthData = NoData) =>
                  /\ rq.result = Invalid
                  /\ Called(rq, "session.destroy")
                  /\ jar[rq.b] = NoSession
            /\ (prev.op = "validateSession" /\ prev.kind = "invalid" /\ prev.b = rq.b) =>
                  /\ rq.result = Invalid
                  /\ rq.trace = <<>>

\* the second validation of a browser whose orphan cookie was just destroyed
SecondValidationOfOrphan ==
    \E r \in Reqs :
        /\ Done(r) /\ req[r].op = "validateSession"
        /\ prev.op = "validateSession" /\ prev.b = req[r].b /\ prev.did = "did:a"
        /\ prev.kind = "invalid"

\* C3: with requests served one at a time, from a completed logout of a cookie
\* with did d until the next successful handleCallback for d, no validateSession
\* of another cookie with did d and no validateMobileSession of a token sealed
\* for d answers valid:true: each answers valid:false.
LogoutSignsOutEveryDevice ==
    \A r \in Reqs :
        (Done(r) /\ req[r].op \in Validations /\ Truthy(req[r].did)
            /\ loggedOut[req[r].did] /\ ~Raised(req[r])) =>
            req[r].result = Invalid

\* a validateSession that has read a record, and the clock when it did
HasRead(rq) == rq.op = "validateSession" /\ rq.at # NoTime /\ rq.oauthData # NoData

\* C4: validateSession calls the adapter's refresh exactly when the record it
\* read has an expiresAt, now + 300000 ms >= expiresAt, the record has a
\* refreshToken and the adapter has a refresh method; 4min59s and 5min00s to
\* expiry lead to a refresh, 5min01s does not.
RefreshExactlyWhenNearExpiry ==
    \A r \in Reqs :
        HasRead(req[r]) =>
            LET rq == req[r]
                expiresAt == rq.oauthData.expiresAt
                able == rq.oauthData.refreshToken # NoToken /\ hasRefresh IN
            /\ Called(rq, "oauthClient.refresh") <=>
                  (expiresAt # NoTime /\ rq.at + 300000 >= expiresAt /\ able)
            /\ (able /\ expiresAt \in {rq.at + 299000, rq.at + 300000}) =>
                  Called(rq, "oauthClient.refresh")
            /\ expiresAt = rq.at + 301000 => ~Called(rq, "oauthClient.refresh")

\* a record read exactly five minutes before it expires is being refreshed
RefreshAtTheBoundary ==
    \E r \in Reqs :
        /\ HasRead(req[r]) /\ req[r].pc = "vs_refresh"
        /\ req[r].oauthData.expiresAt = req[r].at + 300000

\* C5: when the adapter's refresh, or the store write after it, fails inside
\* validateSession, the call raises nothing and answers valid:true with the did
\* of the cookie and the handle of the record as read, and the stored record is
\* the one that was read.
RefreshFailureIsSwallowed ==
    \A r \in Reqs :
        (Done(r) /\ req[r].op = "validateSession" /\ req[r].caught # None) =>
            LET rq == req[r] IN
            /\ rq.result.kind = "valid"
            /\ rq.result.did = rq.session.did /\ rq.session.did = jar[rq.b].did
            /\ rq.result.handle = rq.oauthData.handle
            /\ store[sessionKey(rq.did)] = rq.oauthData

\* a validateSession whose store write after the refresh failed has answered
StoreWriteAfterRefreshFailed ==
    \E r \in Reqs :
        /\ Done(r) /\ req[r].op = "validateSession" /\ req[r].caught = "set"
        /\ Called(req[r], "storage.set")
        /\ store[sessionKey(req[r].did)] = req[r].oauthData

\* C6: of two overlapping validateSession calls for a DID whose record is near
\* expiry, each answers valid:true once it has read the record, also when a
\* refresh fails, and the read of one is never held back by the other.
ConcurrentValidationsBothValid ==
    \A r \in Reqs :
        req[r].op = "validateSession" =>
            /\ (Done(r) /\ HasRead(req[r])) =>
                  /\ req[r].result.kind = "valid"
                  /\ req[r].result.did = req[r].did
            /\ (Quiet /\ req[r].pc = "vs_get") => ENABLED ValidateSessionGet(r)
            /\ (Quiet /\ req[r].pc = "vs_refresh") => ENABLED ValidateSessionRefreshThrows(r)

\* one call has answered valid:true after its refresh failed while the refresh
\* of the other call, for the same record, is still pending
ValidWhileOtherRefreshes ==
    \E r, q \in Reqs :
        /\ Done(r) /\ req[r].op = "validateSession" /\ req[r].caught = "refresh"
        /\ req[r].result.kind = "valid"
        /\ req[q].op = "validateSession" /\ req[q].pc = "vs_refresh"
        /\ req[q].oauthData = req[r].oauthData

\* C7: nothing makes the refresh of a record happen at most once: a
\* validateSession that read the near-expiry record another call is refreshing
\* calls refresh too, with the same refresh token.
NoAtMostOnceRefresh ==
    \A r, q \in Reqs :
        (/\ r # q /\ HasRead(req[r]) /\ req[q].op = "validateSession"
         /\ req[q].pc = "vs_refresh" /\ req[q].oauthData = req[r].oauthData
         /\ req[r].at + 300000 >= req[r].oauthData.expiresAt) =>
            /\ Called(req[r], "oauthClient.refresh")
            /\ req[r].oauthSession.refreshToken = req[q].oauthSession.refreshToken

\* both calls have read the same record and called refresh with the same
\* refresh token, and neither has written the store
BothRefreshWithSameToken ==
    /\ \A r \in Reqs : req[r].op = "validateSession" /\ req[r].pc = "vs_refresh"
    /\ req[1].oauthSession.refreshToken = req[2].oauthSession.refreshToken
    /\ req[1].oauthSession.refreshToken # NoToken
    /\ store[sessionKey(req[1].did)] = req[1].oauthData /\ req[2].oauthData = req[1].oauthData

\* C8: a logout that follows a logout of the same browser raises nothing and
\* leaves no record for the cookie's did; a logout of a cookie session without
\* did calls no storage.delete and raises nothing.
LogoutIsIdempotent ==
    \A r \in Reqs :
        (Done(r) /\ req[r].op = "logout") =>
            LET rq == req[r] IN
            /\ (prev.op = "logout" /\ prev.b = rq.b) =>
                  /\ rq.result = LoggedOut
                  /\ Truthy(prev.did) => store[sessionKey(prev.did)] = NoData
            /\ ~Truthy(rq.did) =>
                  /\ rq.result = LoggedOut
                  /\ ~Called(rq, "storage.delete")

\* the second of two logouts in a row of a signed-in browser
SecondLogout ==
    \E r \in Reqs :
        /\ Done(r) /\ req[r].op = "logout"
        /\ prev.op = "logout" /\ prev.b = req[r].b /\ prev.did = "did:a"

\* C9: handleCallback raises nothing: every failure inside it (a missing
\* parameter, a state that is no JSON, the adapter, the store write or the
\* cookie save throwing) is answered with HTTP 400 and the error message in the
\* body, and a success with a redirect.
HandleCallbackNeverThrows ==
    \A r \in Reqs :
        (Done(r) /\ req[r].op = "handleCallback") =>
            LET rq == req[r] IN
            \/ /\ rq.result.kind = "redirect" /\ rq.result.status = 302
               /\ Called(rq, "storage.set") /\ rq.setCookie = "save"
               /\ store[sessionKey(rq.did)] = rq.updated
            \/ /\ rq.result.kind = "text" /\ rq.result.status = 400
               /\ Len(rq.result.msg) = 2
               /\ rq.result.msg[1] = "OAuth callback failed: "
               /\ rq.result.msg[2] # ""
               /\ \/ ~Truthy(rq.params.code) \/ ~Truthy(rq.params.state)
                  \/ ~JsonOk(rq.params.state)
                  \/ rq.result.msg[2] \in {"callback error", "storage error", "save error"}
                  \/ JSONparse(rq.params.state).isNull

\* a callback whose cookie save threw has been answered with 400
CookieSaveFailureAnswered ==
    \E r \in Reqs :
        /\ Done(r) /\ req[r].op = "handleCallback"
        /\ req[r].result.status = 400 /\ req[r].result.msg[2] = "save error"

\* C10: a handleCallback request without code or without state is answered
\* 400 "Missing code or state parameters": the adapter's callback is not
\* called, the store is not written and no cookie session is made or changed.
MissingParametersStep ==
    \A r \in Reqs :
        (/\ Quiet /\ req'[r].pc = "done" /\ req'[r].op = "handleCallback"
         /\ (~Truthy(req'[r].params.code) \/ ~Truthy(req'[r].params.state))) =>
            /\ req'[r].result.status = 400
            /\ req'[r].result.msg =
                  <<"OAuth callback failed: ", "Missing code or state parameters">>
            /\ req'[r].trace = <<>>
            /\ req'[r].setCookie = "no"
            /\ store' = store /\ jar' = jar /\ minted' = minted /\ tok' = tok

MissingParametersTouchNothing == [][MissingParametersStep]_vars

\* a signed-in browser has sent a callback without code
MissingCodeWhileSignedIn ==
    \E r \in Reqs :
        /\ Done(r) /\ req[r].op = "handleCallback" /\ req[r].params.code = None
        /\ jar[req[r].b].did = "did:a" /\ store[sessionKey("did:a")] # NoData

\* C11: a handleCallback that succeeds for did d leaves the record it wrote
\* under session:{d} and hands the browser the cookie session {did: d,
\* createdAt: now, lastAccessed: now}; with requests served one at a time, a
\* validateSession of a cookie with did d that raises nothing answers valid:true
\* with did d unless a logout of d completed since the last successful
\* handleCallback for d.
SignInThenValid ==
    \A r \in Reqs :
        LET rq == req[r] IN
        /\ (Done(r) /\ rq.op = "handleCallback" /\ rq.result.kind = "redirect") =>
              /\ Truthy(rq.did)
              /\ store[sessionKey(rq.did)] # NoData /\ store[sessionKey(rq.did)] = rq.updated
              /\ store[sessionKey(rq.did)].did = rq.did
              /\ jar[rq.b] = [did |-> rq.did, createdAt |-> now, lastAccessed |-> now]
        /\ (Done(r) /\ rq.op = "validateSession" /\ Truthy(rq.did)
                /\ ~loggedOut[rq.did] /\ ~Raised(rq)) =>
              /\ rq.result.kind = "valid"
              /\ rq.result.did = rq.did

\* a browser validates, a clock step after its sign-in, the cookie the callback
\* gave it
ValidAfterSignIn ==
    \E r \in Reqs :
        /\ Done(r) /\ req[r].op = "validateSession" /\ req[r].result.kind = "valid"
        /\ req[r].result.did = "did:a" /\ ~loggedOut["did:a"]
        /\ jar[req[r].b].createdAt = StartMs /\ now > StartMs

\* the redirectPath values the rule accepts (a leading "/", no leading "//")
AcceptedPaths == {"/bookmarks"}

\* C12: a successful web handleCallback redirects to the redirectPath that the
\* startOAuth call which serialised its state accepted, and to "/" when that
\* call accepted none.
WebCallbackFollowsRedirectPath ==
    \A r \in Reqs :
        (/\ Done(r) /\ req[r].op = "handleCallback" /\ req[r].result.kind = "redirect"
         /\ ~JSONparse(req[r].params.state).mobile) =>
            \A handle \in Handles, timestamp \in Times, options \in Options :
                (/\ isValidHandle(handle)
                 /\ JSONstringify(StateObject(handle, timestamp, options))
                        = req[r].params.state) =>
                    req[r].result.location.to =
                        IF options.redirectPath \in AcceptedPaths
                        THEN options.redirectPath ELSE "/"

StartedOAuth(rq) == rq.op = "startOAuth" /\ rq.pc \in {"so_authorize", "done"}

\* C13: a startOAuth with a valid handle and a redirectPath that does not start
\* with "/" or starts with "//" succeeds when the adapter answers; the state it
\* hands to the adapter is the text of the same call without redirectPath; and
\* every successful web handleCallback redirects to "/".
RejectedRedirectPathIsDropped ==
    \A r \in Reqs :
        LET rq == req[r] IN
        /\ (/\ StartedOAuth(rq) /\ rq.handle = "a.test"
            /\ rq.options.redirectPath \in {"//evil.test", "https://evil.test"}) =>
              /\ Len(rq.authorize) = 1
              /\ rq.authorize[1].state =
                    JSONstringify(StateObject(rq.handle, rq.at,
                                              [rq.options EXCEPT !.redirectPath = None]))
              /\ (rq.handle = "a.test" /\ rq.at = StartMs /\ ~rq.options.mobile) =>
                    rq.authorize[1].state = "{\"handle\":\"a.test\",\"timestamp\":1000000}"
              /\ (Done(r) /\ rq.thrown = NoError) =>
                    /\ rq.result.kind = "url"
                    /\ rq.result.url = "https://oauth.example.com/authorize?code=123"
        /\ (/\ Done(r) /\ rq.op = "handleCallback" /\ rq.result.kind = "redirect"
            /\ ~JSONparse(rq.params.state).mobile) =>
              rq.result.location = [NoLocation EXCEPT !.to = "/"]

\* a startOAuth given "//evil.test" has answered with the adapter's URL
OpenRedirectPathGiven ==
    \E r \in Reqs :
        /\ Done(r) /\ req[r].op = "startOAuth" /\ req[r].result.kind = "url"
        /\ req[r].options.redirectPath = "//evil.test"

\* C14: startOAuth with a handle that fails the syntax rule rejects with
\* OAuthFlowError "Invalid handle" and calls the adapter's authorize not once.
InvalidHandleRejected ==
    \A r \in Reqs :
        (req[r].op = "startOAuth" /\ req[r].handle \in {"invalid-handle", ""}) =>
            /\ Done(r)
            /\ req[r].result.kind = "OAuthFlowError"
            /\ req[r].result.msg = <<"", "Invalid handle">>
            /\ req[r].authorize = <<>>
            /\ ~Called(req[r], "oauthClient.authorize")

\* startOAuth("invalid-handle") has been rejected
InvalidHandleGiven ==
    \E r \in Reqs :
        /\ Done(r) /\ req[r].op = "startOAuth" /\ req[r].handle = "invalid-handle"
        /\ req[r].result.kind = "OAuthFlowError"

\* C15: when the adapter's authorize throws for a valid handle, startOAuth
\* rejects with OAuthFlowError "Failed to start OAuth: " followed by the
\* adapter's message; startOAuth ends with a URL or an OAuthFlowError, nothing
\* else.
AuthorizeErrorIsWrapped ==
    \A r \in Reqs :
        (Done(r) /\ req[r].op = "startOAuth") =>
            /\ req[r].result.kind \in {"url", "OAuthFlowError"}
            /\ req[r].thrown # NoError =>
                  /\ req[r].result.kind = "OAuthFlowError"
                  /\ req[r].result.msg =
                        <<"Failed to start OAuth: ", req[r].thrown.message>>
                  /\ req[r].result.url = None

\* the adapter threw a value that is no Error
AuthorizeThrewNonError ==
    \E r \in Reqs :
        /\ Done(r) /\ req[r].op = "startOAuth"
        /\ ~req[r].thrown.isError /\ req[r].thrown.message = "boom"
        /\ req[r].result.msg = <<"Failed to start OAuth: ", "boom">>

Constructed == manager # NotConstructed

HasRequired(c) ==
    /\ c.oauthClient = "oauthClient" /\ c.storage = "storage"
    /\ c.cookieSecret \notin {None, ""} /\ c.baseUrl \notin {None, ""}

\* C17: the constructor throws a ConfigurationError whose message names "32
\* characters" for a cookieSecret shorter than 32 characters, and accepts one
\* of 32 or more.
ShortSecretRejected ==
    (Constructed /\ HasRequired(config)) =>
        /\ Len(config.cookieSecret) < 32 =>
              /\ manager.kind = "ConfigurationError"
              /\ manager.msg = "cookieSecret must be at least 32 characters for secure encryption (Iron Session requirement)"
        /\ Len(config.cookieSecret) >= 32 => manager.kind = "manager"

\* C18: with oauthClient, storage, cookieSecret or baseUrl missing the
\* constructor throws a ConfigurationError that names the first one missing,
\* in that order, and makes no manager.
FirstMissingIsNamed ==
    Constructed =>
        LET c == config
            first == CASE c.oauthClient = None -> "oauthClient is required"
                       [] c.storage = None -> "storage is required"
                       [] c.cookieSecret \in {None, ""} -> "cookieSecret is required"
                       [] c.baseUrl \in {None, ""} -> "baseUrl is required"
                       [] OTHER -> None IN
        /\ first # None =>
              /\ manager.kind = "ConfigurationError" /\ manager.msg = first
        /\ manager.kind = "ConfigurationError" => manager.config = NotConstructed.config
        /\ manager.kind \in {"ConfigurationError", "manager"}

\* a configuration without oauthClient and without storage was refused for its
\* oauthClient
ClientAndStorageMissing ==
    /\ Constructed /\ config.oauthClient = None /\ config.storage = None
    /\ manager.msg = "oauthClient is required"

\* C19: a manager made from the required members only has cookieName "sid",
\* sessionTtl 604800 and mobileScheme "app://auth-callback"; each default
\* applies when its member is not in the configuration, and a value given for
\* a member replaces the default of that member only.
DefaultsApplied ==
    (Constructed /\ manager.kind = "manager") =>
        LET c == config
            made == manager.config IN
        /\ c.cookieName = None => made.cookieName = "sid"
        /\ c.sessionTtl = NoTime => made.sessionTtl = 604800
        /\ c.mobileScheme = None => made.mobileScheme = "app://auth-callback"
        /\ c.cookieName = "custom_session" => made.cookieName = "custom_session"
        /\ c.sessionTtl = 3600 => made.sessionTtl = 3600
        /\ c.mobileScheme = "myapp://auth-callback" =>
              made.mobileScheme = "myapp://auth-callback"
        /\ made.oauthClient = c.oauthClient /\ made.storage = c.storage
        /\ made.cookieSecret = c.cookieSecret /\ made.baseUrl = c.baseUrl

\* a manager with its own cookie name and the default TTL and scheme
CustomCookieNameOnly ==
    /\ Constructed /\ manager.kind = "manager"
    /\ config.cookieName = "custom_session" /\ config.sessionTtl = NoTime
    /\ config.mobileScheme = None
    /\ manager.config.cookieName = "custom_session"
    /\ manager.config.sessionTtl = 604800
    /\ manager.config.mobileScheme = "app://auth-callback"

\* C20: validateMobileSession raises MobileIntegrationError for a header that
\* does not start with "Bearer " and for a token that does not unseal to a did;
\* for a token that unseals to a did it answers valid:false, raising nothing,
\* when the store has no record of the did, and valid:true with the did and the
\* stored handle when it has one.
MobileOutcomesSeparate ==
    \A r \in Reqs :
        (Done(r) /\ req[r].op = "validateMobileSession") =>
            LET rq == req[r]
                header == rq.authHeader
                did == header.token.data.did IN
            /\ header.scheme # "Bearer " =>
                  /\ rq.result.kind = "MobileIntegrationError"
                  /\ rq.result.msg = <<"", "Invalid authorization header">>
                  /\ rq.trace = <<>>
            /\ (header.scheme = "Bearer " /\ header.token.password # cookieSecret) =>
                  /\ rq.result.kind = "MobileIntegrationError"
                  /\ rq.result.msg = <<"", "Invalid session token">>
                  /\ rq.trace = <<>>
            /\ (/\ header.scheme = "Bearer " /\ header.token.password = cookieSecret
                /\ rq.result.msg # <<"Mobile session validation failed: ", "storage error">>) =>
                  /\ rq.trace = <<"storage.get">>
                  /\ store[sessionKey(did)] = NoData =>
                        /\ rq.result.kind = "invalid" /\ rq.result.did = None
                  /\ store[sessionKey(did)] # NoData =>
                        /\ rq.result.kind = "valid" /\ rq.result.did = did
                        /\ rq.result.handle = store[sessionKey(did)].handle

\* a minted token whose did has a record has been answered valid:true
MobileTokenWithRecord ==
    \E r \in Reqs :
        /\ Done(r) /\ req[r].op = "validateMobileSession"
        /\ req[r].authHeader.token \in minted /\ store[sessionKey("did:a")] # NoData
        /\ req[r].result.kind = "valid" /\ req[r].result.handle = "a.test"

RefreshSucceedsWithRecord ==
    \A r \in Reqs :
        (Done(r) /\ req[r].op = "refreshMobileToken") =>
            LET rq == req[r]
                record == store[sessionKey(rq.did)] IN
            /\ rq.result.kind = "success" =>
                  /\ Called(rq, "storage.get") /\ Truthy(rq.did) /\ record # NoData
            /\ (Called(rq, "storage.get") /\ rq.caught # "get") =>
                  /\ record = NoData =>
                        /\ rq.result.kind = "failure"
                        /\ rq.result.msg[1] \o rq.result.msg[2] = "OAuth session not found"
                        /\ ~Called(rq, "oauthClient.restore")
                  /\ record # NoData =>
                        /\ rq.result.kind = "success"
                        /\ rq.result.did = rq.did
                        /\ rq.result.sid = sealData([did |-> rq.did], cookieSecret)
                        /\ rq.result.sid \in minted

\* restore threw and the refresh succeeded
RefreshAfterRestoreThrew ==
    \E r \in Reqs :
        /\ Done(r) /\ req[r].op = "refreshMobileToken"
        /\ req[r].caught = "throws" /\ Called(req[r], "oauthClient.restore")
        /\ req[r].result.kind = "success" /\ req[r].result.did = "did:a"

\* C23: getOAuthSession does not catch or mask a failure of restore: a typed
\* error restore throws reaches the caller, and null is returned only when
\* restore returned null.
RestoreErrorReachesCaller ==
    \A r \in Reqs :
        (Done(r) /\ req[r].op = "getOAuthSession") =>
            /\ req[r].thrown.name \in RestoreErrorNames =>
                  req[r].result.kind = req[r].thrown.name
            /\ req[r].result = Restored(NoOAuthSession) =>
                  req[r].thrown = NoError

\* C24: when storage.get throws in validateSession, validateSession raises
\* SessionError and does not answer valid:false; the cookie session is not
\* destroyed and the store is not written, and the next validateSession of the
\* same cookie, the store answering with the record, answers valid:true for
\* the did.
StoreFailureKeepsSession ==
    \A r \in Reqs :
        (Done(r) /\ req[r].op = "validateSession") =>
            LET rq == req[r] IN
            /\ rq.thrown # NoError =>
                  /\ rq.result.kind = "SessionError"
                  /\ rq.setCookie # "clear"
                  /\ Truthy(rq.did) /\ jar[rq.b].did = rq.did
                  /\ ~Called(rq, "session.destroy")
                  /\ ~Called(rq, "storage.set") /\ ~Called(rq, "storage.delete")
            /\ (/\ prev.op = "validateSession" /\ prev.kind = "SessionError"
                /\ prev.b = rq.b /\ rq.thrown = NoError /\ Called(rq, "storage.get")) =>
                  /\ rq.did = prev.did
                  /\ store[sessionKey(prev.did)] # NoData =>
                        rq.result.kind = "valid" /\ rq.result.did = prev.did

\* a validateSession that answers valid:true right after one that met a
\* failing store
ValidAfterStoreFailure ==
    \E r \in Reqs :
        /\ Done(r) /\ req[r].op = "validateSession"
        /\ prev.op = "validateSession" /\ prev.kind = "SessionError"
        /\ prev.b = req[r].b /\ prev.did = "did:a"
        /\ req[r].result.kind = "valid" /\ req[r].result.did = "did:a"

\* C25: getOAuthSessionFromRequest returns null, raising nothing and without
\* calling restore, when the request has no cookie header, no cookie named
\* cookieName, or a cookieName cookie that does not unseal.
NoSessionCookieNoRestore ==
    \A r \in Reqs :
        (Done(r) /\ req[r].op = "getOAuthSessionFromRequest") =>
            LET rq == req[r]
                cookieName == IF config.cookieName = None THEN "sid" ELSE config.cookieName
                named == {i \in 1..Len(rq.request.cookies) :
                             rq.request.cookies[i].name = cookieName} IN
            (\/ ~rq.request.hasCookie
             \/ named = {}
             \/ \A i \in named : rq.request.cookies[i].value = Garbage
             \/ \A i \in named : rq.request.cookies[i].value.password # cookieSecret) =>
                /\ rq.result = Restored(NoOAuthSession)
                /\ rq.thrown = NoError
                /\ ~Called(rq, "oauthClient.restore")

\* a request whose cookies are not named cookieName, one of them a sealed session
OtherCookieOnly ==
    \E r \in Reqs :
        /\ Done(r) /\ req[r].op = "getOAuthSessionFromRequest"
        /\ req[r].request.hasCookie
        /\ \A i \in 1..Len(req[r].request.cookies) :
              req[r].request.cookies[i].name # manager.config.cookieName
        /\ \E i \in 1..Len(req[r].request.cookies) :
              req[r].request.cookies[i].value.password = cookieSecret
        /\ req[r].result = Restored(NoOAuthSession)

StoredDataIsTheRecord ==
    /\ \A d \in DIDs : store[sessionKeyBefore(d)] = NoData
    /\ \A r \in Reqs :
          LET rq == req[r] IN
          /\ (Done(r) /\ rq.op = "getStoredOAuthData" /\ rq.caught # "get") =>
                /\ rq.result.kind = "data"
                /\ rq.result.data = store["session:" \o rq.did]
          /\ (Done(r) /\ rq.op = "handleCallback" /\ rq.result.kind = "redirect") =>
                store["session:" \o rq.did] = rq.updated
          /\ (Done(r) /\ rq.op = "logout" /\ rq.result.kind = "ok" /\ Truthy(rq.did)) =>
                store["session:" \o rq.did] = NoData

\* getStoredOAuthData returns the record of a DID that signed in
StoredRecordReturned ==
    \E r \in Reqs :
        /\ Done(r) /\ req[r].op = "getStoredOAuthData"
        /\ req[r].result.kind = "data" /\ req[r].result.data # NoData
        /\ req[r].result.data.did = "did:a" /\ req[r].did = "did:a"

\* C28: a successful handleCallback of a mobile flow redirects to the
\* configured mobile scheme with session_token (the sealed {did}), did and
\* handle, with access_token exactly when the session has an access token and
\* refresh_token exactly when it has a refresh token; did is the did sealed
\* in session_token.
MobileRedirectCarriesSession ==
    \A r \in Reqs :
        (/\ Done(r) /\ req[r].op = "handleCallback" /\ req[r].result.kind = "redirect"
         /\ JSONparse(req[r].params.state).mobile) =>
            LET rq == req[r]
                location == rq.result.location
                s == rq.oauthSession IN
            /\ location.to = IF config.mobileScheme = None THEN "app://auth-callback"
                             ELSE config.mobileScheme
            /\ location.session_token = sealData([did |-> s.did], cookieSecret)
            /\ location.did = s.did /\ Truthy(location.did)
            /\ location.did = unsealData(location.session_token, cookieSecret).did
            /\ location.handle = JSONparse(rq.params.state).handle
            /\ location.access_token = s.accessToken
            /\ location.refresh_token = s.refreshToken

\* a mobile callback to a custom scheme of a session with both tokens
MobileRedirectWithBothTokens ==
    \E r \in Reqs :
        /\ Done(r) /\ req[r].op = "handleCallback" /\ req[r].result.kind = "redirect"
        /\ JSONparse(req[r].params.state).mobile
        /\ req[r].result.location.to = "myapp://auth-callback"
        /\ req[r].result.location.access_token # NoToken
        /\ req[r].result.location.refresh_token # NoToken

\* C29: getClearCookieHeader returns
\* "{cookieName}=; Path=/; HttpOnly; SameSite=Lax; Secure; Max-Age=0" for the
\* configured cookie name, "sid" when none is configured.
ClearCookieHeaderNamesTheCookie ==
    \A r \in Reqs :
        (Done(r) /\ req[r].op = "getClearCookieHeader") =>
            /\ req[r].result.kind = "header"
            /\ req[r].result.header =
                  (IF config.cookieName = None THEN "sid" ELSE config.cookieName)
                      \o "=; Path=/; HttpOnly; SameSite=Lax; Secure; Max-Age=0"

\* the header of a manager with a custom cookie name
CustomCookieCleared ==
    \E r \in Reqs :
        /\ Done(r) /\ req[r].op = "getClearCookieHeader"
        /\ config.cookieName = "custom_session"
        /\ req[r].result.header
              = "custom_session=; Path=/; HttpOnly; SameSite=Lax; Secure; Max-Age=0"

\* C30: once a logout of a DID has completed, no record of the DID exists
\* until the next successful handleCallback for it, even when a validateSession
\* that read the record before the logout finishes its refresh, with its write
\* to the store, afterwards.
NoRecordAfterLogout ==
    \A r \in Reqs :
        (/\ Done(r) /\ req[r].op = "validateSession"
         /\ Called(req[r], "oauthClient.refresh") /\ loggedOut[req[r].did]) =>
            store[sessionKey(req[r].did)] = NoData

\* C31: a successful refresh inside validateSession rewrites the record of
\* the cookie's DID changing only accessToken, refreshToken, expiresAt and
\* updatedAt: every other field keeps the value read at the start of the call,
\* and the refresh token read is kept when the refreshed session has none.
RefreshRewritesTokensOnly ==
    \A r \in Reqs :
        (/\ Done(r) /\ req[r].op = "validateSession"
         /\ Called(req[r], "storage.set") /\ req[r].caught = None) =>
            LET rq == req[r]
                read == rq.oauthData
                written == rq.updated IN
            /\ store[sessionKey(rq.did)] = written
            /\ [written EXCEPT !.accessToken = read.accessToken,
                               !.refreshToken = read.refreshToken,
                               !.expiresAt = read.expiresAt,
                               !.updatedAt = read.updatedAt] = read
            /\ written.did = rq.did /\ written.handle = read.handle
            /\ written.pdsUrl = read.pdsUrl /\ written.createdAt = read.createdAt
            /\ written.accessToken = rq.refreshed.accessToken
            /\ written.refreshToken = IF rq.refreshed.refreshToken = NoToken
                                      THEN read.refreshToken
                                      ELSE rq.refreshed.refreshToken

\* a refresh that returned no refresh token rewrote the record
RefreshedWithoutRefreshToken ==
    \E r \in Reqs :
        /\ Done(r) /\ req[r].op = "validateSession"
        /\ Called(req[r], "storage.set") /\ req[r].caught = None
        /\ req[r].refreshed.refreshToken = NoToken
        /\ req[r].refreshed.accessToken # req[r].oauthData.accessToken
        /\ store[sessionKey("did:a")].refreshToken = req[r].oauthData.refreshToken
        /\ store[sessionKey("did:a")].accessToken = req[r].refreshed.accessToken

\* C40: handleCallback writes the record before it issues the cookie: when
\* it has saved a cookie session with did d, its storage.set for d has
\* completed before; when storage.set fails, no cookie session is created and
\* the response is 400.
RecordBeforeCookie ==
    \A r \in Reqs :
        (Done(r) /\ req[r].op = "handleCallback") =>
            LET rq == req[r] IN
            /\ rq.setCookie = "save" =>
                  /\ \E i, j \in 1..Len(rq.trace) :
                        i < j /\ rq.trace[i] = "storage.set" /\ rq.trace[j] = "session.save"
                  /\ rq.session.did = rq.did /\ Truthy(rq.did)
                  /\ store[sessionKey(rq.did)] = rq.updated /\ rq.updated.did = rq.did
            /\ (Called(rq, "storage.set") /\ rq.updated = NoData) =>
                  /\ rq.setCookie = "no" /\ rq.session = NoSession
                  /\ ~Called(rq, "session.save")
                  /\ rq.result.kind = "text" /\ rq.result.status = 400

\* storage.set failed in a handleCallback
CallbackStoreWriteFailed ==
    \E r \in Reqs :
        /\ Done(r) /\ req[r].op = "handleCallback"
        /\ Called(req[r], "storage.set") /\ req[r].updated = NoData
        /\ req[r].did = "did:a" /\ req[r].result.status = 400
        /\ req[r].setCookie = "no"

\* the calls of the adapter's refresh a request has made
Refreshes(rq) ==
    Cardinality({i \in 1..Len(rq.trace) : rq.trace[i] = "oauthClient.refresh"})

\* a validateSession has just come to its end in this step
ValidationEnds ==
    \E q \in Reqs : req'[q].pc = "done" /\ req'[q].op = "validateSession"

\* C32: in every interleaving of validateSession calls for one DID, once the
\* tokens of a refresh are stored, no store write of a validateSession puts a
\* refresh token in the record that was stored before that refresh (tokens
\* are numbered in the order they are issued).
RefreshNeverRollsBack ==
    [][\A d \in DIDs :
          LET stored == store[sessionKey(d)]
              written == store'[sessionKey(d)] IN
          (/\ ValidationEnds
           /\ stored # NoData /\ stored.updatedAt # NoTime
           /\ written # stored /\ written # NoData) =>
              written.refreshToken >= stored.refreshToken]_vars

\* C33: a validateSession calls the adapter's refresh at most once and makes
\* at most four calls in all; a refresh that failed leaves the store as it
\* was, and the validateSession that follows it for the same DID, reading a
\* record still near expiry, calls refresh again.
RefreshOncePerCall ==
    [][/\ \A r \in Reqs :
             req[r].op = "validateSession" =>
                 /\ Refreshes(req[r]) <= 1
                 /\ Len(req[r].trace) <= 4
       /\ (\E q \in Reqs : req'[q].pc = "done" /\ req'[q].op = "validateSession"
                               /\ req'[q].caught # None) => store' = store
       /\ \A r \in Reqs :
             (/\ Done(r) /\ req[r].op = "validateSession"
              /\ prev.op = "validateSession" /\ prev.kind = "valid"
              /\ prev.did = req[r].did
              /\ req[r].oauthData # NoData
              /\ TruthyMs(req[r].oauthData.expiresAt)
              /\ req[r].at + RefreshWindowMs >= req[r].oauthData.expiresAt
              /\ TruthyToken(req[r].oauthData.refreshToken) /\ hasRefresh) =>
                 Refreshes(req[r]) = 1]_vars

\* a validateSession that follows a failed refresh has called refresh again
RefreshedAgainAfterFailure ==
    \E r \in Reqs :
        /\ Done(r) /\ req[r].op = "validateSession"
        /\ prev.op = "validateSession" /\ prev.kind = "valid" /\ prev.did = req[r].did
        /\ Refreshes(req[r]) = 1
        /\ req[r].result.kind = "valid"

\* the record read cannot be refreshed
Unrefreshable(oauthData) ==
    \/ ~TruthyMs(oauthData.expiresAt)
    \/ ~TruthyToken(oauthData.refreshToken)
    \/ ~hasRefresh

\* C38: when the record of the cookie's DID exists, validateSession answers
\* valid:true whatever its expiresAt; when the record cannot be refreshed (no
\* expiresAt, no refreshToken or an adapter without refresh) the call makes no
\* refresh, no store write and no delete and keeps the cookie, also when now
\* is past expiresAt.
AnswerIgnoresExpiry ==
    \A r \in Reqs :
        (/\ Done(r) /\ req[r].op = "validateSession"
         /\ req[r].oauthData # NoData) =>
            LET rq == req[r] IN
            /\ rq.result.kind = "valid" /\ rq.result.did = rq.did
            /\ Unrefreshable(rq.oauthData) =>
                  /\ Refreshes(rq) = 0
                  /\ ~Called(rq, "storage.set") /\ ~Called(rq, "storage.delete")
                  /\ ~Called(rq, "session.destroy") /\ rq.setCookie = "save"
                  /\ rq.updated = NoData

\* a record that expired and has no refresh token was answered valid:true
ExpiredRecordAnsweredValid ==
    \E r \in Reqs :
        /\ Done(r) /\ req[r].op = "validateSession"
        /\ req[r].oauthData # NoData
        /\ TruthyMs(req[r].oauthData.expiresAt)
        /\ req[r].at > req[r].oauthData.expiresAt
        /\ ~TruthyToken(req[r].oauthData.refreshToken)
        /\ req[r].result.kind = "valid"
        /\ store[sessionKey("did:a")] = req[r].oauthData

\* C39: a refresh that returns no (non-zero) timeUntilExpiry is stored with
\* expiresAt absent; a validateSession that reads a record without expiresAt
\* attempts no refresh; and, no handleCallback being made, the record stored
\* without expiresAt stays without it, so that no later validateSession finds
\* a record to refresh.
NoRefreshAfterExpiryAbsent ==
    [][/\ \A r \in Reqs :
             (/\ Done(r) /\ req[r].op = "validateSession"
              /\ Called(req[r], "storage.set") /\ req[r].caught = None
              /\ ~TruthyMs(req[r].refreshed.timeUntilExpiry)) =>
                 /\ req[r].updated.expiresAt = NoTime
                 /\ store[sessionKey(req[r].did)] = req[r].updated
       /\ \A r \in Reqs :
             (/\ req[r].op = "validateSession" /\ req[r].oauthData # NoData
              /\ req[r].oauthData.expiresAt = NoTime) => Refreshes(req[r]) = 0
       /\ \A d \in DIDs :
             LET stored == store[sessionKey(d)] IN
             (/\ stored # NoData /\ stored.updatedAt # NoTime
              /\ stored.expiresAt = NoTime) =>
                 /\ store'[sessionKey(d)] # NoData
                 /\ store'[sessionKey(d)].expiresAt = NoTime]_vars

\* C35: a successful handleCallback for a DID that has a record overwrites
\* that one record and issues a new cookie; a cookie or mobile token of an
\* earlier callback still validates as valid:true, whenever the record of its
\* DID is read.
LaterSignInKeepsEarlierValid ==
    \A r \in Reqs :
        LET rq == req[r] IN
        /\ (Done(r) /\ rq.op = "handleCallback" /\ rq.setCookie = "save") =>
              /\ store[sessionKey(rq.did)] = rq.updated
              /\ store[sessionKeyBefore(rq.did)] = NoData
              /\ rq.session.did = rq.did /\ rq.session.createdAt = now
        /\ (Done(r) /\ rq.op \in Validations /\ rq.oauthData # NoData) =>
              /\ rq.result.kind = "valid" /\ rq.result.did = rq.did
              /\ rq.oauthData.did = rq.did

\* the cookie of the earlier of two sign-ins of a DID is answered valid:true
\* while the other browser holds the cookie of the later one
EarlierCookieStillValid ==
    \E r \in Reqs, b \in Browsers :
        /\ Done(r) /\ req[r].op = "validateSession" /\ req[r].b # b
        /\ req[r].result.kind = "valid"
        /\ jar[b].did = req[r].did
        /\ jar[b].createdAt > req[r].session.createdAt
        /\ req[r].oauthData.accessToken = 2

MobileOperations == {"validateMobileSession", "refreshMobileToken"}

IsolatedOperations == {"handleCallback", "validateSession", "refreshMobileToken", "logout"}

\* C34: validateSession, refreshMobileToken, logout and handleCallback made
\* for DID d read and write only the key of d: the record they hold was read
\* under session:d, the record they write carries d, a step changes no key but
\* that of the call it completes, and the record of a DID no call is made for
\* stays as it was.
OtherRecordsUntouched ==
    [][/\ \A d \in Others : store'[sessionKey(d)] = store[sessionKey(d)]
       /\ \A r \in Reqs :
             req[r].op \in IsolatedOperations =>
                 /\ req[r].oauthData # NoData => req[r].oauthData.did = req[r].did
                 /\ req[r].updated # NoData => req[r].updated.did = req[r].did
       /\ \A key \in Keys :
             store'[key] # store[key] =>
                 \E q \in Reqs : /\ req'[q].pc = "done"
                                 /\ req'[q].op \in IsolatedOperations
                                 /\ key = sessionKey(req'[q].did)]_vars

\* a logout has deleted the record of its DID and the record of the other
\* DID is in the store
LoggedOutBesideOtherRecord ==
    \E r \in Reqs :
        /\ Done(r) /\ req[r].op = "logout" /\ req[r].result.kind = "ok"
        /\ Called(req[r], "storage.delete")
        /\ tok >= 1
        /\ store[sessionKey(req[r].did)] = NoData
        /\ \A d \in Others : store[sessionKey(d)] = OtherRecord(d)

=============================================================================
